---- MODULE Spec2Model ----
(***************************************************************************)
(* playwright-auditor: the audit orchestrator (runAudit), the analyzer     *)
(* runner (runAnalyzer, normalizeCategory) and the scoring engine          *)
(* (computeCategoryScore, computeOverallScore), as state machines.         *)
(***************************************************************************)
EXTENDS Integers, Sequences, FiniteSets, TLC

VARIABLES
  pc,          \* position of the runAudit call: idle | loop | running | html | json | done | rejected
  target,      \* what fs.stat(targetDir) finds: missing | file | dir
  options,     \* the options argument of the call
  i,           \* index of the registry entry the for-loop is at
  cats,        \* runAudit's local `cats`
  catEntry,    \* for each element of cats, the registry index it came from (0: synthetic)
  loadIssues,  \* runAudit's local `loadIssues`
  issueEntry,  \* for each element of loadIssues, the registry index it came from
  work,        \* findings the analyzer in flight has pushed so far
  outcome,     \* per registry index: how its runAnalyzer call ended in this run: pending | load-miss |
               \* no-fn | threw | rejected | rejected-partial (after pushing findings) | fulfilled |
               \* fulfilled-undefined
  returned,    \* per registry index: the `cat` its runAnalyzer call returned in this run
  thrown,      \* per registry index: the value its analyzer function threw or rejected with
  inflight,    \* registry indices whose analyzer function was invoked and has not settled
  started,     \* registry indices whose module resolution has started, in order
  result,      \* the AuditResult the call resolved with (NoResult before)
  error,       \* the rejection reason of the call (NoError if none)
  dirs,        \* directories created by this call
  files,       \* report files written by this call
  sFindings,   \* scoring harness: the findings list handed to computeCategoryScore
  sOut,        \* scoring harness: what computeCategoryScore returned
  oCats,       \* scoring harness: the categories list handed to computeOverallScore
  oOut,        \* scoring harness: what computeOverallScore returned (<<>> before the call)
  oBase,       \* scoring harness: the list and its overall score before a category was added
  pCalls,      \* scoring harness: the calls made so far, each with its function and its output
  moduleCats,  \* per registry index: the findings of the analyzer module's top-level `cat`
  evaluated,   \* per registry index: the findings its analyzer evaluated during the current call
  runLog,      \* the runAudit calls the process completed: what each evaluated and returned
  disk,        \* per path of the target project: its content ("" if the path does not exist)
  statCache,   \* helpers.js statCache: the (path, boolean) entries it holds
  fileCache,   \* helpers.js fileCache: the (path, text) entries it holds
  pending,     \* exists()/readFile() calls past their cache lookup, awaiting the filesystem
  observed,    \* what the exists()/readFile() calls that returned in the latest step returned
  audits,      \* number of audit invocations the cache model has started
  cliOpts,     \* bin/cli.js: the parsed command-line options { out, jsonOnly, debug }
  cliPc,       \* bin/cli.js: position of the action handler: runAudit | html | exit | failed
  stem,        \* importAnalyzerModule: its argument
  onDisk,      \* importAnalyzerModule: per candidate path, what is there: missing | dir | broken | module
  bare,        \* importAnalyzerModule: per bare specifier, whether import() of it fails or loads
  step,        \* importAnalyzerModule: the candidate (then bare specifier) the loops are at
  tried,       \* importAnalyzerModule's local `tried`
  errors,      \* importAnalyzerModule's local `errors`
  probes,      \* importAnalyzerModule: the fs.stat and import() calls made so far, in order
  mod,         \* importAnalyzerModule: the specifier of the module it returned (<<>>: none yet)
  loadIssue,   \* runAnalyzer: the load issue built when importAnalyzerModule returned no module
  forEntry,    \* runAnalyzer: the registry entry of the call, once its module is loaded
  exported,    \* runAnalyzer: Object.entries of the loaded module, in namespace order
  picked,      \* runAnalyzer: the export it invoked, or the load issue it returned
  walker,      \* helpers.js: which traversal is running: walk | walkFiles
  walkPc,      \* helpers.js traversal: none | called | walking | returned
  tree,        \* helpers.js traversal: the directory tree under the root
  limit,       \* helpers.js traversal: its limit argument
  stack,       \* helpers.js traversal: the active calls of walk, each with its loop index
  collected,   \* helpers.js traversal: the array `out`
  tabIds,      \* dashboard: the category ids of RESULT, in order
  selected,    \* dashboard: per tab button, whether aria-selected is 'true'
  hidden,      \* dashboard: per panel, whether its classList has 'hidden'
  focused,     \* dashboard: index of the tab button that has the focus (0: none)
  lastEvent    \* dashboard: the latest click or key press, with the tab selected before it

vars == <<pc, target, options, i, cats, catEntry, loadIssues, issueEntry, work,
          outcome, returned, thrown, inflight, started, result, error, dirs, files, sFindings, sOut,
          oCats, oOut, oBase, pCalls, moduleCats, evaluated, runLog,
          disk, statCache, fileCache, pending, observed, audits,
          cliOpts, cliPc, stem, onDisk, bare, step, tried, errors, probes, mod, loadIssue,
          forEntry, exported, picked, walker, walkPc, tree, limit, stack, collected,
          tabIds, selected, hidden, focused, lastEvent>>

auditVars == <<pc, target, options, i, cats, catEntry, loadIssues, issueEntry, work,
               outcome, returned, thrown, inflight, started, result, error, dirs, files>>

scoreVars == <<sFindings, sOut>>

overallVars == <<oCats, oOut, oBase>>

processVars == <<moduleCats, evaluated, runLog>>

cacheVars == <<disk, statCache, fileCache, pending, observed, audits>>

cliVars == <<cliOpts, cliPc>>

importVars == <<stem, onDisk, bare, step, tried, errors, probes, mod, loadIssue>>

pickVars == <<forEntry, exported, picked>>

walkVars == <<walker, walkPc, tree, limit, stack, collected>>

tabVars == <<tabIds, selected, hidden, focused, lastEvent>>

\* the command line, the module loader, the traversal helpers and the dashboard
toolVars == <<cliVars, importVars, pickVars, walkVars, tabVars>>

\* everything but the locals of the runAudit call
restVars == <<scoreVars, overallVars, pCalls, processVars, cacheVars, toolVars>>

-----------------------------------------------------------------------------
(* Bounds of the model *)

\* number of registry entries the modelled run iterates over (the first ones of ANALYZERS)
NumAnalyzers == 3

\* findings the analyzers of one run may hold in total (in cats and in flight)
MaxFindings == 2

\* length of the lists handed to the scoring functions
MaxScoreLen == 3

\* runAudit calls one process makes
MaxRuns == 2

\* candidate paths of a module that hold something
MaxPresent == 2

\* largest limit handed to walk and walkFiles
MaxLimit == 3

\* categories of the report the dashboard shows
MaxTabs == 3

-----------------------------------------------------------------------------
(* JavaScript values *)

Undef == "<undefined>"

NoResult == [none |-> TRUE]

NoError == "<none>"

NoThrow == [message |-> Undef, str |-> Undef]

\* an array element that is null: reading a property of it raises a TypeError
NullFinding == [isNull |-> TRUE]

Sev == {"info", "low", "medium", "high", "critical"}

\* String.prototype.toLowerCase on the strings the model uses
ToLowerCase(s) ==
  CASE s = "High" -> "high"
    [] s = "CRITICAL" -> "critical"
    [] OTHER -> s

ANALYZERS == <<
  [id |-> "structure", title |-> "Project Structure", stem |-> "projectStructure", fnName |-> "analyzeProjectStructure"],
  [id |-> "deps", title |-> "Dependencies", stem |-> "dependencies", fnName |-> "analyzeDependencies"],
  [id |-> "config", title |-> "Config", stem |-> "config", fnName |-> "analyzeConfig"],
  [id |-> "tests", title |-> "Test Quality", stem |-> "testsQuality", fnName |-> "analyzeTestsQuality"],
  [id |-> "locators", title |-> "Locator Strategy", stem |-> "locators", fnName |-> "analyzeLocators"],
  [id |-> "flakiness", title |-> "Flakiness Risks", stem |-> "flakiness", fnName |-> "analyzeFlakiness"],
  [id |-> "reporting", title |-> "Reporting & Observability", stem |-> "reportingObs", fnName |-> "analyzeReportingObs"],
  [id |-> "ci", title |-> "CI/CD Hygiene", stem |-> "cicdIntegration", fnName |-> "analyzeCICDIntegration"],
  [id |-> "network", title |-> "Network/Route Mocks", stem |-> "networkMocking", fnName |-> "analyzeNetwork"],
  [id |-> "core", title |-> "Core Functionalities", stem |-> "core", fnName |-> "analyzeCore"],
  [id |-> "advanced", title |-> "Advanced Capabilities", stem |-> "advanced", fnName |-> "analyzeAdvanced"],
  [id |-> "data", title |-> "Data Management", stem |-> "dataMgmt", fnName |-> "analyzeDataMgmt"],
  [id |-> "best", title |-> "Best Practices Enforcement", stem |-> "bestPractices", fnName |-> "analyzeBestPractices"],
  [id |-> "notify", title |-> "Notification", stem |-> "notifications", fnName |-> "analyzeNotification"] >>

\* the entries the modelled run iterates over, in registry order
Registry == SubSeq(ANALYZERS, 1, NumAnalyzers)

Entries == 1..NumAnalyzers

-----------------------------------------------------------------------------
(* Scoring engine: utils/scoring.js *)

\* weights that grow by one per level
WEIGHTLinear == [info |-> 1, low |-> 2, medium |-> 3, high |-> 4, critical |-> 5]

WEIGHT == [info |-> 1, low |-> 2, medium |-> 4, high |-> 8, critical |-> 12]

\* names every object literal inherits from Object.prototype: WEIGHT[name] is
\* the inherited member, which is not nullish, so `?? WEIGHT.low` does not apply
InheritedNames == {"constructor"}

\* String(Object), what `+=` appends when the weight is the inherited constructor
ConstructorText == "function Object() { [native code] }"

\* a points value of the scoring loop: the number n when text is empty, else the
\* string made of the digits of n followed by the pieces of text
Num(k) == [n |-> k, text |-> <<>>]

\* WEIGHT[sev] ?? WEIGHT.low, with sev = f?.severity ?? 'low'
WeightOf(f) ==
  IF f = NullFinding THEN Num(WEIGHT.low)
  ELSE IF f.severity \in Sev THEN Num(WEIGHT[f.severity])
  ELSE IF f.severity \in InheritedNames THEN [n |-> 0, text |-> <<ConstructorText>>]
  ELSE Num(WEIGHT.low)

\* f?.status === 'pass'
Passed(f) == f # NullFinding /\ f.status = "pass"

\* acc += w: numeric addition of two numbers, string concatenation otherwise
PlusEq(acc, w) ==
  IF acc.text = <<>> /\ w.text = <<>>
  THEN Num(acc.n + w.n)
  ELSE [n |-> acc.n,
        text |-> acc.text \o (IF w.text = <<>> THEN <<ToString(w.n)>> ELSE w.text)]

RECURSIVE SumMaxFrom(_, _)
SumMaxFrom(acc, fs) ==
  IF fs = <<>> THEN acc
  ELSE SumMaxFrom(PlusEq(acc, WeightOf(Head(fs))), Tail(fs))

\* maxPoints after the loop
SumMax(fs) == SumMaxFrom(Num(0), fs)

RECURSIVE SumEarnedFrom(_, _)
SumEarnedFrom(acc, fs) ==
  IF fs = <<>> THEN acc
  ELSE SumEarnedFrom(IF Passed(Head(fs)) THEN PlusEq(acc, WeightOf(Head(fs))) ELSE acc,
                     Tail(fs))

\* earnedPoints after the loop
SumEarned(fs) == SumEarnedFrom(Num(0), fs)

\* Math.round((e / m) * 100) in IEEE-754 doubles, for 0 <= e <= m, 0 < m < 400:
\* round-half-up of the exact quotient, except where the double product falls
\* just below the half (e/m = 0.575, and 29/200, 57/200, 113/200)
RoundPct(e, m) ==
  LET exact == (200 * e + m) \div (2 * m)
      low == \/ 200 * e = 115 * m
             \/ (m = 200 /\ e \in {29, 57, 113})
  IN IF low THEN exact - 1 ELSE exact

\* the returned object: maxPoints and earnedPoints hold the number (or the leading
\* digits), maxText and earnedText the rest of the value when `+=` made it a string
ScoreObject(score, maxPoints, earnedPoints) ==
  [score |-> score,
   maxPoints |-> maxPoints.n, maxText |-> maxPoints.text,
   earnedPoints |-> earnedPoints.n, earnedText |-> earnedPoints.text]

\* a score that divides the earned points by the number of findings
computeCategoryScoreByCount(findings) ==
  IF Len(findings) = 0
  THEN ScoreObject(100, Num(0), Num(0))
  ELSE ScoreObject(IF SumMax(findings).text = <<>>
                   THEN RoundPct(SumEarned(findings).n, Len(findings)) ELSE 100,
                   SumMax(findings), SumEarned(findings))

\* computeCategoryScore(findings); the lists of the model are arrays.
\* `maxPoints > 0` is false for a string that is not a numeral (NaN)
computeCategoryScore(findings) ==
  IF Len(findings) = 0
  THEN ScoreObject(100, Num(0), Num(0))
  ELSE LET maxPoints == SumMax(findings)
           earnedPoints == SumEarned(findings)
       IN ScoreObject(IF maxPoints.text = <<>> /\ maxPoints.n > 0
                      THEN RoundPct(earnedPoints.n, maxPoints.n) ELSE 100,
                      maxPoints, earnedPoints)

RECURSIVE SumWeighted(_)
SumWeighted(cs) ==
  IF cs = <<>> THEN 0
  ELSE (IF Head(cs).maxPoints > 0 THEN Head(cs).score * Head(cs).maxPoints ELSE 0)
       + SumWeighted(Tail(cs))

\* a weight total in which a category without points counts for one
RECURSIVE SumWeightCountingEmpty(_)
SumWeightCountingEmpty(cs) ==
  IF cs = <<>> THEN 0
  ELSE (IF Head(cs).maxPoints > 0 THEN Head(cs).maxPoints ELSE 1)
       + SumWeightCountingEmpty(Tail(cs))

RECURSIVE SumWeight(_)
SumWeight(cs) ==
  IF cs = <<>> THEN 0
  ELSE (IF Head(cs).maxPoints > 0 THEN Head(cs).maxPoints ELSE 0) + SumWeight(Tail(cs))

RECURSIVE SumScore(_)
SumScore(cs) == IF cs = <<>> THEN 0 ELSE Head(cs).score + SumScore(Tail(cs))

\* Math.round(n / d) for n >= 0, d > 0
RoundDiv(n, d) == (2 * n + d) \div (2 * d)

\* an overall score that is always the plain mean of the category scores
computeOverallScoreUnweighted(categories) ==
  IF Len(categories) = 0 THEN 100
  ELSE RoundDiv(SumScore(categories), Len(categories))

computeOverallScore(categories) ==
  IF Len(categories) = 0 THEN 100
  ELSE IF SumWeight(categories) > 0
       THEN RoundDiv(SumWeighted(categories), SumWeight(categories))
       ELSE RoundDiv(SumScore(categories), Len(categories))

-----------------------------------------------------------------------------
(* Deduction score of the analyzers: utils/helpers.js *)

DEDUCT == [info |-> 0, low |-> 2, medium |-> 6, high |-> 12, critical |-> 20]

\* a finding the loop deducts for: f.status === 'fail'
Deducts(f) == f # NullFinding /\ f.status = "fail"

\* DEDUCT[f.severity || 'info'] || 0, for a severity that is no inherited name
DeductOf(f) == IF f.severity \in Sev THEN DEDUCT[f.severity] ELSE 0

RECURSIVE SumDeduct(_)
SumDeduct(fs) ==
  IF fs = <<>> THEN 0
  ELSE (IF Deducts(Head(fs)) THEN DeductOf(Head(fs)) ELSE 0) + SumDeduct(Tail(fs))

\* `s -= DEDUCT[...]` with an inherited member of DEDUCT makes s NaN for good
DeductIsNaN(fs) ==
  \E k \in 1..Len(fs) : Deducts(fs[k]) /\ fs[k].severity \in InheritedNames

\* applyScore(findings): Math.max(0, Math.min(100, s)), which is NaN for s = NaN
applyScore(findings) ==
  IF DeductIsNaN(findings) THEN [nan |-> TRUE]
  ELSE LET s == 100 - SumDeduct(findings)
       IN [value |-> IF s < 0 THEN 0 ELSE IF s > 100 THEN 100 ELSE s]

-----------------------------------------------------------------------------
(* Inputs of a run *)

\* fs.stat(targetDir): nothing there, a regular file, a directory
Targets == {"missing", "file", "dir"}

\* a validation that only checks that the path exists
IsDirectoryExistsOnly(t) == t # "missing"

\* stat && stat.isDirectory()
IsDirectory(t) == t = "dir"

\* the options argument: {} (defaults), and { outDir, writeHtml: false, writeJson: true }
OptionSets ==
  { [outDir |-> Undef, writeHtml |-> Undef, writeJson |-> Undef],
    [outDir |-> "out", writeHtml |-> "false", writeJson |-> "true"] }

\* options.outDir || path.resolve(process.cwd(), 'audit-report')
OutDirOf(o) == IF o.outDir \in {Undef, ""} THEN "cwd/audit-report" ELSE o.outDir

\* the findings an analyzer may push: a well-formed one; one that repeats its id,
\* whose severity is spelled in another case and whose status is no pass/fail;
\* one with every field missing; and a null element
RawFindings ==
  { [id |-> "cfg-trace", title |-> "Trace", message |-> "Configured",
     severity |-> "critical", status |-> "pass"],
    [id |-> "cfg-trace", title |-> "Trace on retry", message |-> "",
     severity |-> "High", status |-> "skipped"],
    [id |-> Undef, title |-> Undef, message |-> Undef,
     severity |-> Undef, status |-> Undef],
    NullFinding }

\* values an analyzer throws or rejects with: an Error with a message, and a
\* bare string; message is e?.message and str is String(e)
ErrorValues ==
  { [message |-> "ENOENT: no such file", str |-> "Error: ENOENT: no such file"],
    [message |-> Undef, str |-> "timeout"] }

TypeErrorNull ==
  [message |-> "Cannot read properties of null (reading 'id')",
   str |-> "TypeError: Cannot read properties of null (reading 'id')"]

\* what importAnalyzerModule finds for a stem: no loadable module, a module that
\* exports the function the entry names, one that exports another function only,
\* one that exports no function
ModuleShapes == {"missing", "exportsNamed", "exportsOther", "exportsNone"}

\* what the analyzer function fulfils with: its category object, nothing
\* (undefined), or an object whose findings is no array and that has no id/title
OutKinds == {"category", "undefined", "noArray"}

-----------------------------------------------------------------------------
(* Runner: normalizeCategory, runAnalyzer *)

\* e?.message || String(e)
ErrText(e) == IF e.message \in {Undef, ""} THEN e.str ELSE e.message

\* String(x || '').toLowerCase() switched over the five severities, default 'low'
toSev(x) ==
  LET s == IF x \in {Undef, ""} THEN "" ELSE ToLowerCase(x)
  IN IF s \in Sev THEN s ELSE "low"

\* a status taken over as the analyzer gave it
toStatusTrusting(x) == x

\* f.status === 'pass' || f.status === 'fail' ? f.status : 'fail'
toStatus(x) == IF x = "pass" \/ x = "fail" THEN x ELSE "fail"

\* one element of findings.map(...) (suggestion, file and artifacts are absent
\* from the model's findings and stay undefined)
NormalizeFinding(f) ==
  [id |-> IF f.id # Undef THEN f.id ELSE IF f.title # Undef THEN f.title ELSE "check",
   title |-> IF f.title # Undef THEN f.title ELSE "Check",
   message |-> IF f.message \in {Undef, ""} THEN "" ELSE f.message,
   severity |-> toSev(f.severity),
   status |-> toStatus(f.status)]

\* cat.score as the analyzer leaves it: applyScore(cat.findings), or the 0 of
\* createCategory when the analyzer does not go through applyScore (which cannot
\* read a null element)
OwnScore(pushed) ==
  IF \E k \in 1..Len(pushed) : pushed[k] = NullFinding
  THEN [value |-> 0]
  ELSE applyScore(pushed)

\* the object an analyzer function fulfils with
AnalyzerOut(entry, kind, pushed) ==
  CASE kind = "category" ->
         [kind |-> "object", id |-> entry.id, title |-> entry.title,
          isArray |-> TRUE, findings |-> pushed, score |-> OwnScore(pushed)]
    [] kind = "noArray" ->
         [kind |-> "object", id |-> Undef, title |-> Undef,
          isArray |-> FALSE, findings |-> <<>>, score |-> [value |-> 0]]
    [] OTHER -> [kind |-> "undefined"]

\* the findings normalizeCategory maps over
FindingsOf(out) == IF out.isArray THEN out.findings ELSE <<>>

\* reading f.id of a null element raises a TypeError inside findings.map
NormalizeThrows(out) ==
  /\ out.kind = "object"
  /\ \E k \in 1..Len(FindingsOf(out)) : FindingsOf(out)[k] = NullFinding

\* normalizeCategory(entry, out): <<>> stands for null, <<c>> for the category c
normalizeCategory(entry, out) ==
  IF out.kind # "object" THEN <<>>
  ELSE << [id |-> IF out.id \in {Undef, ""} THEN entry.id ELSE out.id,
           title |-> IF out.title \in {Undef, ""} THEN entry.title ELSE out.title,
           findings |-> [k \in 1..Len(FindingsOf(out)) |->
                           NormalizeFinding(FindingsOf(out)[k])]] >>

\* runAnalyzer's results are { cat, loadIssue }; each is a list of zero or one
\* element here (empty: null or absent)

\* a load issue named after the stem instead of the entry id
LoadMissResultByStem(entry) ==
  [cat |-> <<>>,
   loadIssue |-> << [id |-> "load-" \o entry.stem,
                     title |-> "Analyzer not loaded: " \o entry.title,
                     message |-> "Module not found for analyzer (stem=" \o entry.stem \o ")",
                     severity |-> "high",
                     status |-> "fail"] >>]

\* the module could not be loaded
LoadMissResult(entry) ==
  [cat |-> <<>>,
   loadIssue |-> << [id |-> "load-" \o entry.id,
                     title |-> "Analyzer not loaded: " \o entry.title,
                     message |-> "Module not found for analyzer (stem=" \o entry.stem \o ")",
                     severity |-> "high",
                     status |-> "fail"] >>]

\* the module exports no function
NoFnResult(entry) ==
  [cat |-> <<>>,
   loadIssue |-> << [id |-> "no-fn-" \o entry.id,
                     title |-> "Analyzer export missing: " \o entry.title,
                     message |-> "Module loaded but export " \o entry.fnName \o " not found.",
                     severity |-> "high",
                     status |-> "fail"] >>]

\* a catch block that reports String(e) whatever e.message is
ErrorResultStringified(entry, e) ==
  [cat |-> << [id |-> entry.id,
               title |-> entry.title,
               findings |-> << [id |-> "analyzer-error",
                                title |-> "Analyzer failed",
                                message |-> e.str,
                                severity |-> "high",
                                status |-> "fail"] >>] >>,
   loadIssue |-> <<>>]

\* the catch block of runAnalyzer
ErrorResult(entry, e) ==
  [cat |-> << [id |-> entry.id,
               title |-> entry.title,
               findings |-> << [id |-> "analyzer-error",
                                title |-> "Analyzer failed",
                                message |-> ErrText(e),
                                severity |-> "high",
                                status |-> "fail"] >>] >>,
   loadIssue |-> <<>>]

\* const out = await fn(targetDir); normalize; return { cat: normalized || null }
FulfilResult(entry, out) ==
  IF NormalizeThrows(out) THEN ErrorResult(entry, TypeErrorNull)
  ELSE [cat |-> normalizeCategory(entry, out), loadIssue |-> <<>>]

\* typeof mod[entry.fnName] === 'function', else the first exported function
HasFn(shape) == shape \in {"exportsNamed", "exportsOther"}

-----------------------------------------------------------------------------
(* Orchestrator: runAudit *)

\* a loop body in which a failing analyzer's category replaces the list
CollectLosesEarlier(k, ret, how) ==
  /\ cats' = IF how \in {"threw", "rejected", "rejected-partial"} THEN ret.cat ELSE cats \o ret.cat
  /\ catEntry' = IF how \in {"threw", "rejected", "rejected-partial"} THEN <<k>>
                 ELSE IF ret.cat # <<>> THEN Append(catEntry, k) ELSE catEntry
  /\ loadIssues' = loadIssues \o ret.loadIssue
  /\ issueEntry' = IF ret.loadIssue # <<>> THEN Append(issueEntry, k) ELSE issueEntry
  /\ outcome' = [outcome EXCEPT ![k] = how]
  /\ returned' = [returned EXCEPT ![k] = ret.cat]
  /\ inflight' = inflight \ {k}
  /\ work' = <<>>
  /\ i' = k + 1
  /\ pc' = "loop"

\* a loop body without the catch: an analyzer's exception ends the call
CollectRethrows(k, ret, how) ==
  /\ cats' = cats \o ret.cat
  /\ catEntry' = IF ret.cat # <<>> THEN Append(catEntry, k) ELSE catEntry
  /\ loadIssues' = loadIssues \o ret.loadIssue
  /\ issueEntry' = IF ret.loadIssue # <<>> THEN Append(issueEntry, k) ELSE issueEntry
  /\ outcome' = [outcome EXCEPT ![k] = how]
  /\ returned' = [returned EXCEPT ![k] = ret.cat]
  /\ inflight' = inflight \ {k}
  /\ work' = <<>>
  /\ i' = k + 1
  /\ pc' = IF how \in {"threw", "rejected", "rejected-partial"} THEN "rejected" ELSE "loop"

\* the for-loop body after `await runAnalyzer(entry, targetDir)` returned ret:
\* if (cat) cats.push(cat); if (loadIssue) loadIssues.push(loadIssue)
Collect(k, ret, how) ==
  /\ cats' = cats \o ret.cat
  /\ catEntry' = IF ret.cat # <<>> THEN Append(catEntry, k) ELSE catEntry
  /\ loadIssues' = loadIssues \o ret.loadIssue
  /\ issueEntry' = IF ret.loadIssue # <<>> THEN Append(issueEntry, k) ELSE issueEntry
  /\ outcome' = [outcome EXCEPT ![k] = how]
  /\ returned' = [returned EXCEPT ![k] = ret.cat]
  /\ inflight' = inflight \ {k}
  /\ work' = <<>>
  /\ i' = k + 1
  /\ pc' = "loop"

\* findings held by the run: in the collected categories and by the analyzer in flight
RECURSIVE CountFindings(_)
CountFindings(cs) ==
  IF cs = <<>> THEN 0 ELSE Len(Head(cs).findings) + CountFindings(Tail(cs))

Held == CountFindings(cats) + Len(work)

\* the load-issues category pushed at the end instead of unshifted
WithLoadCategoryAppended(cs, issues) ==
  IF Len(issues) > 0
  THEN cs \o << [id |-> "analyzer-load", title |-> "Analyzer Load Issues", findings |-> issues] >>
  ELSE cs

\* if (loadIssues.length) cats.unshift({ id: 'analyzer-load', ... })
WithLoadCategory(cs, issues) ==
  IF Len(issues) > 0
  THEN << [id |-> "analyzer-load", title |-> "Analyzer Load Issues", findings |-> issues] >> \o cs
  ELSE cs

\* a scoring step that stores the deduction score of the findings
ScoreCategoryByDeduction(c) ==
  [id |-> c.id, title |-> c.title, findings |-> c.findings,
   score |-> applyScore(c.findings).value,
   maxPoints |-> computeCategoryScore(c.findings).maxPoints]

\* for (const c of cats) { c.score = score; c._maxPoints = maxPoints }
ScoreCategory(c) ==
  LET s == computeCategoryScore(c.findings)
  IN [id |-> c.id, title |-> c.title, findings |-> c.findings,
      score |-> s.score, maxPoints |-> s.maxPoints]

ScoreAll(cs) == [k \in 1..Len(cs) |-> ScoreCategory(cs[k])]

\* the result object (the timestamp is left out)
BuildResult(cs) ==
  [targetDir |-> "abs/target",
   categories |-> cs,
   overallScore |-> computeOverallScore(
                      [k \in 1..Len(cs) |-> [score |-> cs[k].score, maxPoints |-> cs[k].maxPoints]])]

\* where the call goes after fs.mkdir(outDir) succeeded
AfterMkdir(o) ==
  IF o.writeHtml # "false" THEN "html"
  ELSE IF o.writeJson = "true" THEN "json" ELSE "done"

\* where the call goes after writeHtml succeeded
AfterHtml(o) == IF o.writeJson = "true" THEN "json" ELSE "done"

InitAudit ==
  /\ pc = "idle"
  /\ target = "dir"
  /\ options = [outDir |-> Undef, writeHtml |-> Undef, writeJson |-> Undef]
  /\ i = 1
  /\ cats = <<>>
  /\ catEntry = <<>>
  /\ loadIssues = <<>>
  /\ issueEntry = <<>>
  /\ work = <<>>
  /\ outcome = [k \in Entries |-> "pending"]
  /\ returned = [k \in Entries |-> <<>>]
  /\ thrown = [k \in Entries |-> NoThrow]
  /\ inflight = {}
  /\ started = <<>>
  /\ result = NoResult
  /\ error = NoError
  /\ dirs = {}
  /\ files = {}

\* the scoring functions, by name
ScoringFunctions == {"computeCategoryScore", "computeOverallScore", "applyScore"}

\* the calls of each scoring function logged so far: none
NoCalls == [fn \in ScoringFunctions |-> <<>>]

\* no scoring function has been called from outside a run
InitScoring ==
  /\ sFindings = <<>>
  /\ sOut = NoResult
  /\ oCats = <<>>
  /\ oOut = <<>>
  /\ oBase = <<>>
  /\ pCalls = NoCalls

\* the analyzer modules are loaded by the first import of a process: each
\* top-level `const cat = createCategory(...)` starts with no findings
InitProcess ==
  /\ moduleCats = [k \in Entries |-> <<>>]
  /\ evaluated = [k \in Entries |-> <<>>]
  /\ runLog = <<>>

\* paths of the target project the analyzers look at
Paths == {"package-lock.json", "yarn.lock"}

\* const statCache = new Map(); const fileCache = new Map();
InitCaches ==
  /\ statCache = {}
  /\ fileCache = {}
  /\ pending = {}
  /\ observed = {}
  /\ audits = 0

\* bin/cli.js is not running
NoCli ==
  /\ cliOpts = [out |-> "audit-report", jsonOnly |-> FALSE, debug |-> FALSE]
  /\ cliPc = "none"

\* no importAnalyzerModule call is being followed
NoImport ==
  /\ stem = ""
  /\ onDisk = <<>>
  /\ bare = <<>>
  /\ step = 0
  /\ tried = <<>>
  /\ errors = <<>>
  /\ probes = <<>>
  /\ mod = <<>>
  /\ loadIssue = <<>>

\* no function lookup of runAnalyzer is being followed
NoPick ==
  /\ forEntry = 0
  /\ exported = <<>>
  /\ picked = <<>>

\* no traversal of helpers.js is running
NoWalk ==
  /\ walker = ""
  /\ walkPc = "none"
  /\ tree = <<>>
  /\ limit = 0
  /\ stack = <<>>
  /\ collected = <<>>

\* the dashboard is not open
NoTabs ==
  /\ tabIds = <<>>
  /\ selected = <<>>
  /\ hidden = <<>>
  /\ focused = 0
  /\ lastEvent = <<>>

InitTools ==
  /\ NoCli
  /\ NoImport
  /\ NoPick
  /\ NoWalk
  /\ NoTabs

Init ==
  /\ InitAudit
  /\ InitScoring
  /\ InitProcess
  /\ InitCaches
  /\ InitTools
  /\ disk = [p \in Paths |-> ""]

\* runAudit(targetDir, options) is called: the locals are fresh, the target is
\* validated, and the call throws or enters the loop
RunAudit(t, o) ==
  /\ pc = "idle"
  /\ target' = t
  /\ options' = o
  /\ i' = 1
  /\ cats' = <<>>
  /\ catEntry' = <<>>
  /\ loadIssues' = <<>>
  /\ issueEntry' = <<>>
  /\ work' = <<>>
  /\ outcome' = [k \in Entries |-> "pending"]
  /\ returned' = [k \in Entries |-> <<>>]
  /\ thrown' = [k \in Entries |-> NoThrow]
  /\ inflight' = {}
  /\ started' = <<>>
  /\ result' = NoResult
  /\ dirs' = {}
  /\ files' = {}
  /\ IF IsDirectory(t)
     THEN pc' = "loop" /\ error' = NoError
     ELSE pc' = "rejected" /\ error' = "Target directory not found"
  /\ UNCHANGED restVars

\* runAnalyzer: importAnalyzerModule returns no module
LoadMiss ==
  /\ pc = "loop" /\ i <= NumAnalyzers
  /\ started' = Append(started, i)
  /\ Collect(i, LoadMissResult(Registry[i]), "load-miss")
  /\ thrown' = thrown
  /\ UNCHANGED <<target, options, result, error, dirs, files, restVars>>

\* runAnalyzer: the module loads and exports no function
NoFn ==
  /\ pc = "loop" /\ i <= NumAnalyzers
  /\ ~HasFn("exportsNone")
  /\ started' = Append(started, i)
  /\ Collect(i, NoFnResult(Registry[i]), "no-fn")
  /\ thrown' = thrown
  /\ UNCHANGED <<target, options, result, error, dirs, files, restVars>>

\* runAnalyzer: the module loads, fn is called and throws before returning
InvokeThrows(shape, e) ==
  /\ pc = "loop" /\ i <= NumAnalyzers
  /\ HasFn(shape)
  /\ started' = Append(started, i)
  /\ Collect(i, ErrorResult(Registry[i], e), "threw")
  /\ thrown' = [thrown EXCEPT ![i] = e]
  /\ UNCHANGED <<target, options, result, error, dirs, files, restVars>>

\* a loop that does not await the analyzer before it goes to the next entry
InvokeWithoutAwait(shape) ==
  /\ pc = "loop" /\ i <= NumAnalyzers
  /\ HasFn(shape)
  /\ started' = Append(started, i)
  /\ inflight' = inflight \cup {i}
  /\ work' = <<>>
  /\ i' = i + 1
  /\ UNCHANGED <<pc, target, options, cats, catEntry, loadIssues, issueEntry, outcome, returned,
                 thrown, result, error, dirs, files, restVars>>

\* runAnalyzer: the module loads, fn is called and returns a pending promise
Invoke(shape) ==
  /\ pc = "loop" /\ i <= NumAnalyzers
  /\ HasFn(shape)
  /\ started' = Append(started, i)
  /\ inflight' = inflight \cup {i}
  /\ work' = <<>>
  /\ pc' = "running"
  /\ UNCHANGED <<target, options, i, cats, catEntry, loadIssues, issueEntry, outcome, returned, thrown,
                 result, error, dirs, files, restVars>>

\* the analyzer in flight evaluates a check and pushes its finding
AnalyzerPush(f) ==
  /\ pc = "running"
  /\ Held < MaxFindings
  /\ work' = Append(work, f)
  /\ UNCHANGED <<pc, target, options, i, cats, catEntry, loadIssues, issueEntry, outcome, returned, thrown,
                 inflight, started, result, error, dirs, files, restVars>>

\* the analyzer's promise fulfils; runAnalyzer normalizes and returns
AnalyzerFulfil(kind) ==
  /\ pc = "running"
  /\ LET out == AnalyzerOut(Registry[i], kind, work)
     IN Collect(i, FulfilResult(Registry[i], out),
                IF out.kind = "object" THEN "fulfilled" ELSE "fulfilled-undefined")
  /\ thrown' = thrown
  /\ UNCHANGED <<target, options, started, result, error, dirs, files, restVars>>

\* the analyzer's promise rejects; runAnalyzer's catch block returns
AnalyzerReject(e) ==
  /\ pc = "running"
  /\ Collect(i, ErrorResult(Registry[i], e),
             IF work = <<>> THEN "rejected" ELSE "rejected-partial")
  /\ thrown' = [thrown EXCEPT ![i] = e]
  /\ UNCHANGED <<target, options, started, result, error, dirs, files, restVars>>

\* after the loop, up to the completion of `await fs.mkdir(outDir)`: the
\* load-issues category, the scores, the result object, the output directory
Finalize(ok) ==
  /\ pc = "loop" /\ i > NumAnalyzers
  /\ LET scored == ScoreAll(WithLoadCategory(cats, loadIssues))
     IN /\ cats' = scored
        /\ catEntry' = IF Len(loadIssues) > 0 THEN <<0>> \o catEntry ELSE catEntry
        /\ result' = BuildResult(scored)
  /\ IF ok
     THEN /\ dirs' = dirs \cup {OutDirOf(options)}
          /\ pc' = AfterMkdir(options)
          /\ error' = error
     ELSE /\ dirs' = dirs
          /\ pc' = "rejected"
          /\ error' = "mkdir failed"
  /\ UNCHANGED <<target, options, i, loadIssues, issueEntry, work, outcome, returned, thrown,
                 inflight, started, files, restVars>>

\* await writeHtml(result, outDir)
WriteHtml(ok) ==
  /\ pc = "html"
  /\ IF ok
     THEN /\ files' = files \cup {<<OutDirOf(options), "index.html">>}
          /\ pc' = AfterHtml(options)
          /\ error' = error
     ELSE /\ files' = files
          /\ pc' = "rejected"
          /\ error' = "writeHtml failed"
  /\ UNCHANGED <<target, options, i, cats, catEntry, loadIssues, issueEntry, work, outcome, returned, thrown,
                 inflight, started, result, dirs, restVars>>

\* await fs.writeFile(path.join(outDir, 'report.json'), ...)
WriteJson(ok) ==
  /\ pc = "json"
  /\ IF ok
     THEN /\ files' = files \cup {<<OutDirOf(options), "report.json">>}
          /\ pc' = "done"
          /\ error' = error
     ELSE /\ files' = files
          /\ pc' = "rejected"
          /\ error' = "writeFile failed"
  /\ UNCHANGED <<target, options, i, cats, catEntry, loadIssues, issueEntry, work, outcome, returned, thrown,
                 inflight, started, result, dirs, restVars>>

\* the caller has received the result or the rejection; the call's locals are gone
CallSettled ==
  /\ pc \in {"done", "rejected"}
  /\ pc' = "idle"
  /\ target' = "dir"
  /\ options' = [outDir |-> Undef, writeHtml |-> Undef, writeJson |-> Undef]
  /\ i' = 1
  /\ cats' = <<>>
  /\ catEntry' = <<>>
  /\ loadIssues' = <<>>
  /\ issueEntry' = <<>>
  /\ work' = <<>>
  /\ outcome' = [k \in Entries |-> "pending"]
  /\ returned' = [k \in Entries |-> <<>>]
  /\ thrown' = [k \in Entries |-> NoThrow]
  /\ inflight' = {}
  /\ started' = <<>>
  /\ result' = NoResult
  /\ error' = NoError
  /\ dirs' = {}
  /\ files' = {}
  /\ UNCHANGED restVars

-----------------------------------------------------------------------------
(* Scoring harness: the scoring functions applied to drawn inputs *)

ScoreSeverities == Sev \cup InheritedNames \cup {"urgent", Undef}

ScoreStatuses == {"pass", "fail", Undef}

\* findings as the scoring functions read them: a severity and a status
ScoreFindings == [severity : ScoreSeverities, status : ScoreStatuses]

ScoreLists == UNION {[1..n -> ScoreFindings] : n \in 0..MaxScoreLen}

\* computeCategoryScore is called on the drawn list
ApplyCategoryScore ==
  /\ sOut = NoResult
  /\ sOut' = computeCategoryScore(sFindings)
  /\ UNCHANGED <<sFindings, auditVars, overallVars, pCalls, processVars, cacheVars, toolVars>>

\* applyScore is called on the drawn list
ApplyDeductionScore ==
  /\ sOut = NoResult
  /\ sOut' = applyScore(sFindings)
  /\ UNCHANGED <<sFindings, auditVars, overallVars, pCalls, processVars, cacheVars, toolVars>>

\* category scores and weights as computeOverallScore reads them
OverallScores == {0, 50, 75, 100}

OverallMaxPoints == {0, 10, 30}

OverallCategories == [score : OverallScores, maxPoints : OverallMaxPoints]

OverallLists == UNION {[1..n -> OverallCategories] : n \in 0..MaxScoreLen}

\* computeOverallScore is called on the list
ApplyOverallScore ==
  /\ oOut = <<>>
  /\ oOut' = << computeOverallScore(oCats) >>
  /\ UNCHANGED <<oCats, oBase, auditVars, scoreVars, pCalls, processVars, cacheVars, toolVars>>

\* the caller scores the list again with one more category, one without points
AddCategory(c) ==
  /\ oOut # <<>>
  /\ oBase = <<>>
  /\ c.maxPoints = 0
  /\ oBase' = << [categories |-> oCats, overall |-> oOut[1]] >>
  /\ oCats' = Append(oCats, c)
  /\ oOut' = <<>>
  /\ UNCHANGED <<auditVars, scoreVars, pCalls, processVars, cacheVars, toolVars>>

\* findings and categories the repeated calls are made on
RepeatFindings == [severity : {"critical", "info", "constructor"}, status : {"pass", "fail"}]

RepeatLists == UNION {[1..n -> RepeatFindings] : n \in 0..MaxScoreLen}

RepeatCategories ==
  { <<>>,
    << [score |-> 100, maxPoints |-> 10], [score |-> 0, maxPoints |-> 30] >>,
    << [score |-> 75, maxPoints |-> 0], [score |-> 50, maxPoints |-> 0] >> }

\* an argument array after a call whose loop shifts the elements out of it
AfterDrain(arg) == <<>>

\* an argument array after a call: the loops of the three functions read f.severity,
\* f.status, c.score and c._maxPoints, and assign to locals only
AfterRead(arg) == arg

\* what the function returns on the arrays as they are now
ScoringOutput(fn) ==
  CASE fn = "computeCategoryScore" -> computeCategoryScore(sFindings)
    [] fn = "computeOverallScore" -> [overall |-> computeOverallScore(oCats)]
    [] fn = "applyScore" -> applyScore(sFindings)

\* one of the scoring functions is called, for the first or the second time, on
\* the same array object
CallScoring(fn) ==
  /\ Len(pCalls[fn]) < 2
  /\ pCalls' = [pCalls EXCEPT ![fn] = Append(@, ScoringOutput(fn))]
  /\ sFindings' = IF fn = "computeOverallScore" THEN sFindings ELSE AfterRead(sFindings)
  /\ oCats' = IF fn = "computeOverallScore" THEN AfterRead(oCats) ELSE oCats
  /\ UNCHANGED <<sOut, oOut, oBase, auditVars, processVars, cacheVars, toolVars>>

-----------------------------------------------------------------------------
(* Successive audits in one process: the analyzer modules stay loaded *)

\* ids of the analyzers whose `const cat = createCategory(...)` is a top-level
\* statement of the module; core, advanced and best create it inside the function
ModuleLevelCat ==
  {"structure", "deps", "config", "tests", "locators", "flakiness", "reporting", "ci",
   "network", "data", "notify"}

\* the findings an analyzer evaluates on the target directory, which does not
\* change between the calls: the same checks with the same outcome every time
ChecksOf(entry) ==
  << [id |-> entry.stem, title |-> entry.title, message |-> "Not configured",
      severity |-> "high", status |-> "fail"] >>

\* the Error an analyzer throws when it crashes
CrashError == CHOOSE e \in ErrorValues : e.message # Undef

\* runAudit is called again on the same directory, with the default options
StartAudit ==
  /\ Len(runLog) < MaxRuns
  /\ RunAudit("dir", [outDir |-> Undef, writeHtml |-> Undef, writeJson |-> Undef])

\* one iteration of the loop: runAnalyzer imports the module (the first call of the
\* process evaluates it, later calls get the same instance), the analyzer pushes
\* its findings onto its cat and returns it, or throws after the pushes
AnalyzerCompletes(crash) ==
  /\ pc = "loop" /\ i <= NumAnalyzers
  /\ LET entry == Registry[i]
         pushedNow == ChecksOf(entry)
         held == IF entry.id \in ModuleLevelCat THEN moduleCats[i] ELSE <<>>
         all == held \o pushedNow
     IN /\ moduleCats' = IF entry.id \in ModuleLevelCat
                         THEN [moduleCats EXCEPT ![i] = all] ELSE moduleCats
        /\ evaluated' = [evaluated EXCEPT ![i] = pushedNow]
        /\ Collect(i,
                   IF crash THEN ErrorResult(entry, CrashError)
                   ELSE FulfilResult(entry, AnalyzerOut(entry, "category", all)),
                   IF crash THEN "rejected-partial" ELSE "fulfilled")
  /\ started' = Append(started, i)
  /\ thrown' = IF crash THEN [thrown EXCEPT ![i] = CrashError] ELSE thrown
  /\ UNCHANGED <<target, options, result, error, dirs, files, scoreVars, overallVars, pCalls,
                 runLog, cacheVars, toolVars>>

\* after the loop: the categories are scored, the result is built, the output
\* directory and index.html are written and the call resolves with the result
CompleteAudit ==
  /\ pc = "loop" /\ i > NumAnalyzers
  /\ LET scored == ScoreAll(WithLoadCategory(cats, loadIssues))
         entries == IF Len(loadIssues) > 0 THEN <<0>> \o catEntry ELSE catEntry
     IN /\ cats' = scored
        /\ catEntry' = entries
        /\ result' = BuildResult(scored)
        /\ runLog' = Append(runLog, [evaluated |-> evaluated, outcome |-> outcome,
                                     catEntry |-> entries, result |-> BuildResult(scored)])
  /\ dirs' = dirs \cup {OutDirOf(options)}
  /\ files' = files \cup {<<OutDirOf(options), "index.html">>}
  /\ evaluated' = [k \in Entries |-> <<>>]
  /\ pc' = "idle"
  /\ UNCHANGED <<target, options, i, loadIssues, issueEntry, work, outcome, returned, thrown,
                 inflight, started, error, moduleCats, scoreVars, overallVars, pCalls, cacheVars, toolVars>>

-----------------------------------------------------------------------------
(* The caches of utils/helpers.js, over the audits of one process *)

\* content of a path: "" when nothing is there (readFile then returns '')
Contents == {"", "v1", "v2"}

\* Map.has, Map.get, Map.set on a cache held as a set of entries
CacheHas(cache, p) == \E e \in cache : e.path = p

CacheGet(cache, p) == (CHOOSE e \in cache : e.path = p).value

CacheSet(cache, p, v) == {e \in cache : e.path # p} \cup {[path |-> p, value |-> v]}

\* an audit begins: runAudit is called and its analyzers start to run
AuditStarts ==
  /\ pc = "idle"
  /\ audits < MaxRuns
  /\ audits' = audits + 1
  /\ pc' = "running"
  /\ observed' = {}
  /\ UNCHANGED <<target, options, i, cats, catEntry, loadIssues, issueEntry, work, outcome,
                 returned, thrown, inflight, started, result, error, dirs, files,
                 scoreVars, overallVars, pCalls, processVars, disk, statCache, fileCache, pending, toolVars>>

\* an exists() that skips the cache lookup and always goes to the file system
ExistsCallsUncached(ps) ==
  /\ pc = "running"
  /\ observed' = {}
  /\ pending' = pending \cup {[op |-> "exists", path |-> p] : p \in ps}
  /\ UNCHANGED <<auditVars, scoreVars, overallVars, pCalls, processVars, disk, statCache,
                 fileCache, audits, toolVars>>

\* exists(p) is called for each p of ps: every call runs to its cache lookup and
\* returns the cached value, or goes on to `await fs.stat(p)`
ExistsCalls(ps) ==
  /\ pc = "running"
  /\ observed' = {[op |-> "exists", path |-> p, value |-> CacheGet(statCache, p)] :
                    p \in {q \in ps : CacheHas(statCache, q)}}
  /\ pending' = pending \cup {[op |-> "exists", path |-> p] :
                                p \in {q \in ps : ~CacheHas(statCache, q)}}
  /\ UNCHANGED <<auditVars, scoreVars, overallVars, pCalls, processVars, disk, statCache,
                 fileCache, audits, toolVars>>

\* `await exists(p)`: the analyzer goes on when the call has returned
ExistsOne(p) == pending = {} /\ ExistsCalls({p})

\* `await Promise.all([exists(a).then(...), exists(b).then(...), ...])`
ExistsAll == pending = {} /\ ExistsCalls(Paths)

\* fs.stat(p) settles: statCache.set(p, ok) or, in the catch block, (p, false)
StatSettles(p) ==
  /\ [op |-> "exists", path |-> p] \in pending
  /\ LET ok == IF disk[p] # "" THEN "true" ELSE "false"
     IN /\ statCache' = CacheSet(statCache, p, ok)
        /\ observed' = {[op |-> "exists", path |-> p, value |-> ok]}
  /\ pending' = pending \ {[op |-> "exists", path |-> p]}
  /\ UNCHANGED <<auditVars, scoreVars, overallVars, pCalls, processVars, disk, fileCache, audits, toolVars>>

\* readFile(p) is called for each p of ps: cache lookup, then `await fs.readFile(p)`
ReadCalls(ps) ==
  /\ pc = "running"
  /\ observed' = {[op |-> "readFile", path |-> p, value |-> CacheGet(fileCache, p)] :
                    p \in {q \in ps : CacheHas(fileCache, q)}}
  /\ pending' = pending \cup {[op |-> "readFile", path |-> p] :
                                p \in {q \in ps : ~CacheHas(fileCache, q)}}
  /\ UNCHANGED <<auditVars, scoreVars, overallVars, pCalls, processVars, disk, statCache,
                 fileCache, audits, toolVars>>

\* `await readFile(p)`
ReadOne(p) == pending = {} /\ ReadCalls({p})

\* `await Promise.all(files.map(safeReadFile))`
ReadAll == pending = {} /\ ReadCalls(Paths)

\* fs.readFile(p) settles: fileCache.set(p, text) or, in the catch block, (p, '')
ReadSettles(p) ==
  /\ [op |-> "readFile", path |-> p] \in pending
  /\ fileCache' = CacheSet(fileCache, p, disk[p])
  /\ observed' = {[op |-> "readFile", path |-> p, value |-> disk[p]]}
  /\ pending' = pending \ {[op |-> "readFile", path |-> p]}
  /\ UNCHANGED <<auditVars, scoreVars, overallVars, pCalls, processVars, disk, statCache, audits, toolVars>>

\* the audit ends: every call of its analyzers has returned
AuditEnds ==
  /\ pc = "running"
  /\ pending = {}
  /\ pc' = "idle"
  /\ UNCHANGED <<target, options, i, cats, catEntry, loadIssues, issueEntry, work, outcome,
                 returned, thrown, inflight, started, result, error, dirs, files,
                 scoreVars, overallVars, pCalls, processVars, cacheVars, toolVars>>

\* between two audits a file of the project is created, changed or removed
ProjectChanges(p, v) ==
  /\ pc = "idle"
  /\ v # disk[p]
  /\ disk' = [disk EXCEPT ![p] = v]
  /\ UNCHANGED <<auditVars, scoreVars, overallVars, pCalls, processVars, statCache, fileCache,
                 pending, observed, audits, toolVars>>

-----------------------------------------------------------------------------
(* The command line: bin/cli.js *)

\* the state of the engine: runAudit, the scoring functions, the process, the caches
engineVars == <<auditVars, scoreVars, overallVars, pCalls, processVars, cacheVars>>

\* what commander parses: -o/--out <dir> (default 'audit-report'), --json-only, --debug
CliOptionSets == [out : {"audit-report", "out"}, jsonOnly : BOOLEAN, debug : BOOLEAN]

\* what runAudit reads from its `options` parameter when it is handed a boolean:
\* options.outDir, options.writeHtml and options.writeJson are all undefined
OptionsFromBoolean(b) == [outDir |-> Undef, writeHtml |-> Undef, writeJson |-> Undef]

\* the directory that opts.out names, relative to the working directory
CliOutDir(o) == "cwd/" \o o.out

\* const result = await runAudit(target, opts.debug);
CliRunAudit(t) ==
  /\ cliPc = "runAudit"
  /\ RunAudit(t, OptionsFromBoolean(cliOpts.debug))

\* runAudit rejected: the action handler rejects and nothing more is written
CliFails ==
  /\ cliPc = "runAudit"
  /\ pc = "rejected"
  /\ cliPc' = "failed"
  /\ UNCHANGED <<engineVars, cliOpts, importVars, pickVars, walkVars, tabVars>>

\* await writeJson(result, opts.out): mkdir, then report.json
CliWriteJson(ok) ==
  /\ cliPc = "runAudit"
  /\ pc = "done"
  /\ IF ok
     THEN /\ dirs' = dirs \cup {CliOutDir(cliOpts)}
          /\ files' = files \cup {<<CliOutDir(cliOpts), "report.json">>}
          /\ cliPc' = IF cliOpts.jsonOnly THEN "exit" ELSE "html"
     ELSE /\ dirs' = dirs
          /\ files' = files
          /\ cliPc' = "failed"
  /\ UNCHANGED <<pc, target, options, i, cats, catEntry, loadIssues, issueEntry, work, outcome,
                 returned, thrown, inflight, started, result, error,
                 scoreVars, overallVars, pCalls, processVars, cacheVars,
                 cliOpts, importVars, pickVars, walkVars, tabVars>>

\* if (!opts.jsonOnly) await writeHtml(result, opts.out);
CliWriteHtml(ok) ==
  /\ cliPc = "html"
  /\ IF ok
     THEN /\ files' = files \cup {<<CliOutDir(cliOpts), "index.html">>}
          /\ cliPc' = "exit"
     ELSE /\ files' = files
          /\ cliPc' = "failed"
  /\ UNCHANGED <<pc, target, options, i, cats, catEntry, loadIssues, issueEntry, work, outcome,
                 returned, thrown, inflight, started, result, error, dirs,
                 scoreVars, overallVars, pCalls, processVars, cacheVars,
                 cliOpts, importVars, pickVars, walkVars, tabVars>>
-----------------------------------------------------------------------------
(* Module resolution: analyzerCandidates, importAnalyzerModule, runAnalyzer *)

\* the folders candidates are built in, for index.js running from <pkg>/dist/src:
\* distAnalyzers, srcAnalyzers, path.join(dir, 'analyzers')
CandidateDirs == <<"pkg/dist/analyzers", "pkg/src/analyzers", "pkg/dist/src/analyzers">>

\* const exts = ['.js', '.mjs', '.cjs', '.ts']
Exts == <<".js", ".mjs", ".cjs", ".ts">>

\* the list analyzerCandidates(stem) returns: for each folder, each extension
NumCandidates == Len(CandidateDirs) * Len(Exts)

analyzerCandidates(s) ==
  [k \in 1..NumCandidates |->
     CandidateDirs[((k - 1) \div Len(Exts)) + 1] \o "/" \o s \o Exts[((k - 1) % Len(Exts)) + 1]]

\* for (const ext of ['.js', '.mjs']) { const rel = `./analyzers/${stem}${ext}`; ... }
BareExts == <<".js", ".mjs">>

BareSpecifiers(s) == [k \in 1..Len(BareExts) |-> "./analyzers/" \o s \o BareExts[k]]

\* what a candidate path may hold: nothing, a directory, a file whose import()
\* throws, a file that imports
DiskKinds == {"missing", "dir", "broken", "module"}

\* what import() of a bare specifier does
BareKinds == {"fails", "loads"}

\* the value of `step` once both loops are over, and once the call has returned
LoopsOver(s) == NumCandidates + Len(BareExts) + 1

Returned(s) == LoopsOver(s) + 1

\* a guard that imports whatever the probe finds, directories included
ImportsWhateverExists(kind) == kind # "missing"

\* const st = await fs.stat(abs).catch(() => null); if (!st || !st.isFile()) continue;
PassesProbe(kind) == kind \in {"broken", "module"}

\* e?.message || String(e) of the error import() throws
ImportErrorText(kind) == IF kind = "dir" THEN "Directory import is not supported" ELSE "Cannot load module"

\* errors.push(`${abs}: ${e?.message || String(e)}`)
ErrorEntry(spec, kind) == spec \o ": " \o ImportErrorText(kind)

\* one iteration of the first loop: the candidate is noted, probed and, if the
\* probe finds a regular file, imported
TryCandidate ==
  /\ step \in 1..NumCandidates
  /\ LET abs == analyzerCandidates(stem)[step]
         kind == onDisk[step]
         stat == [op |-> "stat", spec |-> abs]
         imp == [op |-> "import", spec |-> abs]
     IN /\ tried' = Append(tried, abs)
        /\ IF ~PassesProbe(kind)
           THEN /\ probes' = Append(probes, stat)
                /\ UNCHANGED <<errors, mod>>
                /\ step' = step + 1
           ELSE /\ probes' = probes \o <<stat, imp>>
                /\ IF kind = "module"
                   THEN /\ mod' = <<abs>>
                        /\ errors' = errors
                        /\ step' = Returned(stem)
                   ELSE /\ mod' = mod
                        /\ errors' = Append(errors, ErrorEntry(abs, kind))
                        /\ step' = step + 1
  /\ UNCHANGED <<engineVars, cliVars, stem, onDisk, bare, loadIssue, pickVars, walkVars, tabVars>>

\* one iteration of the second loop: import() of a bare relative specifier
TryBare ==
  /\ step \in (NumCandidates + 1)..(LoopsOver(stem) - 1)
  /\ LET k == step - NumCandidates
         rel == BareSpecifiers(stem)[k]
     IN /\ tried' = Append(tried, rel)
        /\ probes' = Append(probes, [op |-> "import", spec |-> rel])
        /\ IF bare[k] = "loads"
           THEN /\ mod' = <<rel>>
                /\ errors' = errors
                /\ step' = Returned(stem)
           ELSE /\ mod' = mod
                /\ errors' = Append(errors, ErrorEntry(rel, bare[k]))
                /\ step' = step + 1
  /\ UNCHANGED <<engineVars, cliVars, stem, onDisk, bare, loadIssue, pickVars, walkVars, tabVars>>

\* a message that leaves the errors out
LoadMessageWithoutErrors(e, tr, er) ==
  <<"Module not found for analyzer \"" \o e.title \o "\" (stem=\"" \o e.stem \o "\"). Tried:">>
    \o [k \in 1..Len(tr) |-> "* " \o tr[k]]

\* the message of the load issue, as the list of its lines (the bullet written *):
\* msg = `Module not found ... Tried:\n` + tried.map(p => `• ${p}`).join('\n'),
\* hint = errors.length ? `\nErrors:\n${errors.map(e => `- ${e}`).join('\n')}` : ''
LoadMessage(e, tr, er) ==
  <<"Module not found for analyzer \"" \o e.title \o "\" (stem=\"" \o e.stem \o "\"). Tried:">>
    \o [k \in 1..Len(tr) |-> "* " \o tr[k]]
    \o (IF Len(er) > 0 THEN <<"Errors:">> \o [k \in 1..Len(er) |-> "- " \o er[k]] ELSE <<>>)

\* importAnalyzerModule returns { mod: null, tried, errors } and runAnalyzer
\* returns the load issue
ReturnsNoModule ==
  /\ step = LoopsOver(stem)
  /\ step' = Returned(stem)
  /\ loadIssue' = << [id |-> "load-" \o ANALYZERS[forEntry].id,
                      title |-> "Analyzer not loaded: " \o ANALYZERS[forEntry].title,
                      message |-> LoadMessage(ANALYZERS[forEntry], tried, errors),
                      severity |-> "high",
                      status |-> "fail"] >>
  /\ UNCHANGED <<engineVars, cliVars, stem, onDisk, bare, tried, errors, probes, mod,
                 pickVars, walkVars, tabVars>>
-----------------------------------------------------------------------------
(* The function runAnalyzer invokes *)

\* names a module may export, in the order of a module namespace (sorted): a
\* helper, the name of the registry entry, its plural, a configuration value
ExportNames(e) == <<"aHelper", e.fnName, e.fnName \o "s", "zConfig">>

\* the modules: each name is not exported, or exported as a function or as
\* another value
ExportLists(e) ==
  { SelectSeq([k \in 1..Len(ExportNames(e)) |-> [name |-> ExportNames(e)[k], kind |-> kinds[k]]],
              LAMBDA x : x.kind # "absent") :
      kinds \in [1..Len(ExportNames(e)) -> {"absent", "function", "value"}] }

\* the exports of a module that are functions, in order
Functions(ex) == SelectSeq(ex, LAMBDA x : x.kind = "function")

\* a lookup that takes the first exported function whatever the entry names
FirstFunctionOnly(e, ex) ==
  IF Len(Functions(ex)) > 0 THEN <<Functions(ex)[1].name>> ELSE <<>>

\* let fn = mod[entry.fnName];
\* if (typeof fn !== 'function') fn = Object.values(mod).find((v) => typeof v === 'function');
FunctionToCall(e, ex) ==
  IF \E k \in 1..Len(ex) : ex[k].name = e.fnName /\ ex[k].kind = "function"
  THEN <<e.fnName>>
  ELSE IF Len(Functions(ex)) > 0 THEN <<Functions(ex)[1].name>> ELSE <<>>

\* the try block of runAnalyzer up to the call of the function: the function is
\* looked up and invoked, or the no-fn load issue is returned
PickFunction ==
  /\ forEntry \in 1..Len(ANALYZERS)
  /\ picked = <<>>
  /\ LET e == ANALYZERS[forEntry]
         fn == FunctionToCall(e, exported)
     IN picked' = << [invoked |-> fn,
                      loadIssue |-> IF fn = <<>> THEN NoFnResult(e).loadIssue ELSE <<>>] >>
  /\ UNCHANGED <<engineVars, cliVars, importVars, forEntry, exported, walkVars, tabVars>>
-----------------------------------------------------------------------------
(* The traversals of utils/helpers.js: walk, walkFiles *)

\* an entry of a directory, as fs.readdir(dir, { withFileTypes: true }) gives it
File(name, ext) == [name |-> name, ext |-> ext, dir |-> FALSE]

Dir(name) == [name |-> name, ext |-> "", dir |-> TRUE]

\* directory trees, as a function from the path of each directory to its
\* entries: no root at all; a flat directory; nested directories with files
\* before, inside and after them; an empty subdirectory and files of other
\* kinds; a root that holds one directory only
Trees ==
  { [d \in {} |-> <<>>],
    [d \in {"root"} |->
       <<File("a", ".ts"), File("b", ".js"), File("notes", ".md"), File("c", ".TSX"),
         File("d", ".jsx"), File("e", ".ts")>>],
    [d \in {"root", "root/sub", "root/sub/deep"} |->
       CASE d = "root" -> <<Dir("sub"), File("a", ".ts"), File("b", ".ts")>>
         [] d = "root/sub" -> <<File("c", ".ts"), Dir("deep"), File("d", ".ts")>>
         [] OTHER -> <<File("e", ".ts"), File("f", ".ts"), File("g", ".ts")>>],
    [d \in {"root", "root/empty", "root/sub"} |->
       CASE d = "root" -> <<File("a", ".ts"), Dir("empty"), File("pkg", ".json"), Dir("sub"),
                            File("z", ".js")>>
         [] d = "root/empty" -> <<>>
         [] OTHER -> <<File("x", ".md"), File("y", ".ts"), File("w", ".js"), File("v", ".ts")>>],
    [d \in {"root", "root/e2e", "root/e2e/pages"} |->
       CASE d = "root" -> <<Dir("e2e")>>
         [] d = "root/e2e" -> <<Dir("pages"), File("login.spec", ".ts"), File("cart.spec", ".ts")>>
         [] OTHER -> <<File("login", ".ts"), File("cart", ".ts"), File("README", ".md")>>] }

\* const ents = await fs.readdir(dir, { withFileTypes: true }).catch(() => []);
Readdir(t, d) == IF d \in DOMAIN t THEN t[d] ELSE <<>>

\* const p = path.join(dir, e.name);
JoinPath(d, e) == d \o "/" \o e.name \o e.ext

\* exts.test(p) for the default exts = /\.(t|j)sx?$/i
MatchesExts(e) == e.ext \in {".ts", ".tsx", ".js", ".jsx", ".TS", ".TSX", ".JS", ".JSX"}

\* walk pushes every entry that is no directory, walkFiles those that match exts
Keeps(w, e) == w = "walk" \/ MatchesExts(e)

\* a loop that never breaks
LimitNeverReached(out, lim) == FALSE

\* if (out.length >= limit) break;
LimitReached(out, lim) == Len(out) >= lim

\* the stack without its top call, which has returned
Pop(st) == SubSeq(st, 1, Len(st) - 1)

\* the stack after the top call has finished with its current entry: it breaks
\* out of the loop and returns, or goes on to the next entry
AfterEntry(st, out, lim) ==
  IF LimitReached(out, lim) THEN Pop(st)
  ELSE [st EXCEPT ![Len(st)] = [dir |-> @.dir, k |-> @.k + 1, awaiting |-> FALSE]]

\* the position of the traversal once the stack is st
PcAfter(st) == IF st = <<>> THEN "returned" ELSE "walking"

\* walk(dir, limit) is entered; walkFiles enters its inner walk only if
\* exists(root) holds
WalkStarts ==
  /\ walkPc = "called"
  /\ IF walker = "walkFiles" /\ "root" \notin DOMAIN tree
     THEN /\ walkPc' = "returned"
          /\ stack' = stack
     ELSE /\ walkPc' = "walking"
          /\ stack' = << [dir |-> "root", k |-> 1, awaiting |-> FALSE] >>
  /\ UNCHANGED <<engineVars, cliVars, importVars, pickVars, walker, tree, limit, collected, tabVars>>

\* one iteration of the for loop of the innermost call: a directory is entered
\* if out is still short of the limit, another entry is pushed if it is kept;
\* then the limit test
VisitEntry ==
  /\ walkPc = "walking"
  /\ LET top == stack[Len(stack)]
         ents == Readdir(tree, top.dir)
     IN /\ ~top.awaiting
        /\ top.k <= Len(ents)
        /\ LET e == ents[top.k]
           IN IF e.dir /\ Len(collected) < limit
              THEN /\ stack' = Append([stack EXCEPT ![Len(stack)] =
                                         [dir |-> top.dir, k |-> top.k, awaiting |-> TRUE]],
                                      [dir |-> JoinPath(top.dir, e), k |-> 1, awaiting |-> FALSE])
                   /\ collected' = collected
                   /\ walkPc' = walkPc
              ELSE LET out == IF ~e.dir /\ Keeps(walker, e)
                              THEN Append(collected, JoinPath(top.dir, e)) ELSE collected
                   IN /\ collected' = out
                      /\ stack' = AfterEntry(stack, out, limit)
                      /\ walkPc' = PcAfter(AfterEntry(stack, out, limit))
  /\ UNCHANGED <<engineVars, cliVars, importVars, pickVars, walker, tree, limit, tabVars>>

\* `await walk(p)` has returned: the calling loop goes on with its limit test
ChildReturned ==
  /\ walkPc = "walking"
  /\ stack[Len(stack)].awaiting
  /\ stack' = AfterEntry(stack, collected, limit)
  /\ walkPc' = PcAfter(AfterEntry(stack, collected, limit))
  /\ UNCHANGED <<engineVars, cliVars, importVars, pickVars, walker, tree, limit, collected, tabVars>>

\* the for loop of the innermost call has run out of entries: the call returns
LoopEnds ==
  /\ walkPc = "walking"
  /\ ~stack[Len(stack)].awaiting
  /\ stack[Len(stack)].k > Len(Readdir(tree, stack[Len(stack)].dir))
  /\ stack' = Pop(stack)
  /\ walkPc' = PcAfter(Pop(stack))
  /\ UNCHANGED <<engineVars, cliVars, importVars, pickVars, walker, tree, limit, collected, tabVars>>
-----------------------------------------------------------------------------
(* The dashboard: wireTabs, activate *)

\* ids the categories of a report may have
CategoryIds == {"load-issues", "structure", "deps"}

\* RESULT.categories, as the list of their ids (ids may repeat)
TabLists == UNION {[1..n -> CategoryIds] : n \in 0..MaxTabs}

\* btn.id = 'tab-' + c.id
TabId(id) == "tab-" \o id

\* btn.id.replace('tab-', ''): the first 'tab-' of the button id is its prefix
StripTab(btnId) == CHOOSE id \in CategoryIds : TabId(id) = btnId

\* section.id = 'panel-' + cat.id (buildPanel)
PanelId(id) == "panel-" \o id

Keys == {"ArrowLeft", "ArrowRight", "Home", "End"}

\* wireTabs: one button and one panel per category; the first button is
\* selected, every panel but the first is hidden
WireTabs ==
  /\ lastEvent = <<>>
  /\ selected' = [k \in 1..Len(tabIds) |-> k = 1]
  /\ hidden' = [k \in 1..Len(tabIds) |-> k # 1]
  /\ focused' = 0
  /\ lastEvent' = << [ev |-> "wireTabs", from |-> 0] >>
  /\ UNCHANGED <<engineVars, cliVars, importVars, pickVars, walkVars, tabIds>>

\* activate(catId): every button whose id is 'tab-' + catId is selected and the
\* others are not; every panel whose id is 'panel-' + catId is shown and the
\* others are hidden
activate(catId) ==
  /\ selected' = [k \in 1..Len(tabIds) |-> TabId(tabIds[k]) = TabId(catId)]
  /\ hidden' = [k \in 1..Len(tabIds) |-> PanelId(tabIds[k]) # PanelId(catId)]

\* buttons.findIndex(b => b.getAttribute('aria-selected') === 'true'), counted
\* from 1; if (current === -1) current = 0
Current ==
  IF \E k \in 1..Len(selected) : selected[k]
  THEN CHOOSE k \in 1..Len(selected) : selected[k] /\ \A j \in 1..(k - 1) : ~selected[j]
  ELSE 1

\* the click listener of the tab bar, for a click on button k
ClickTab(k) ==
  /\ lastEvent # <<>>
  /\ k \in 1..Len(tabIds)
  /\ activate(StripTab(TabId(tabIds[k])))
  /\ focused' = focused
  /\ lastEvent' = << [ev |-> "click", from |-> Current] >>
  /\ UNCHANGED <<engineVars, cliVars, importVars, pickVars, walkVars, tabIds>>

\* arrow keys that stop at the ends of the tab bar
NextIndexClamped(key, cur, n) ==
  CASE key = "ArrowRight" -> IF cur = n THEN n ELSE cur + 1
    [] key = "ArrowLeft" -> IF cur = 1 THEN 1 ELSE cur - 1
    [] key = "Home" -> 1
    [] OTHER -> n

\* the index the key leads to, counted from 1:
\* (current + 1) % length, (current - 1 + length) % length, 0, length - 1
NextIndex(key, cur, n) ==
  CASE key = "ArrowRight" -> (((cur - 1) + 1) % n) + 1
    [] key = "ArrowLeft" -> (((cur - 1) - 1 + n) % n) + 1
    [] key = "Home" -> 1
    [] OTHER -> n

\* the keydown listener of the tab bar; with no button there is no `next` and
\* nothing happens
KeyDown(key) ==
  /\ lastEvent # <<>>
  /\ IF Len(tabIds) = 0
     THEN UNCHANGED <<selected, hidden, focused>>
     ELSE LET next == NextIndex(key, Current, Len(tabIds))
          IN /\ activate(StripTab(TabId(tabIds[next])))
             /\ focused' = next
  /\ lastEvent' = << [ev |-> key, from |-> Current] >>
  /\ UNCHANGED <<engineVars, cliVars, importVars, pickVars, walkVars, tabIds>>
-----------------------------------------------------------------------------
Next ==
  \/ \E t \in Targets, o \in OptionSets : RunAudit(t, o)
  \/ LoadMiss
  \/ NoFn
  \/ \E shape \in ModuleShapes, e \in ErrorValues : InvokeThrows(shape, e)
  \/ \E shape \in ModuleShapes : Invoke(shape)
  \/ \E f \in RawFindings : AnalyzerPush(f)
  \/ \E kind \in OutKinds : AnalyzerFulfil(kind)
  \/ \E e \in ErrorValues : AnalyzerReject(e)
  \/ \E ok \in BOOLEAN : Finalize(ok)
  \/ \E ok \in BOOLEAN : WriteHtml(ok)
  \/ \E ok \in BOOLEAN : WriteJson(ok)
  \/ CallSettled

Spec == Init /\ [][Next]_vars

InitScore ==
  /\ InitAudit
  /\ sFindings \in ScoreLists
  /\ sOut = NoResult
  /\ oCats = <<>>
  /\ oOut = <<>>
  /\ oBase = <<>>
  /\ pCalls = NoCalls
  /\ InitProcess
  /\ InitCaches
  /\ InitTools
  /\ disk = [p \in Paths |-> ""]

NextScore == ApplyCategoryScore

SpecScore == InitScore /\ [][NextScore]_vars

InitOverall ==
  /\ InitAudit
  /\ sFindings = <<>>
  /\ sOut = NoResult
  /\ oCats \in OverallLists
  /\ oOut = <<>>
  /\ oBase = <<>>
  /\ pCalls = NoCalls
  /\ InitProcess
  /\ InitCaches
  /\ InitTools
  /\ disk = [p \in Paths |-> ""]

NextOverall ==
  \/ ApplyOverallScore
  \/ \E c \in OverallCategories : AddCategory(c)

SpecOverall == InitOverall /\ [][NextOverall]_vars

NextProcess ==
  \/ StartAudit
  \/ \E crash \in BOOLEAN : AnalyzerCompletes(crash)
  \/ CompleteAudit

SpecProcess == Init /\ [][NextProcess]_vars

InitCacheAudits ==
  /\ InitAudit
  /\ InitScoring
  /\ InitProcess
  /\ InitCaches
  /\ InitTools
  /\ disk \in [Paths -> Contents]

NextCache ==
  \/ AuditStarts
  \/ \E p \in Paths : ExistsOne(p)
  \/ ExistsAll
  \/ \E p \in Paths : StatSettles(p)
  \/ \E p \in Paths : ReadOne(p)
  \/ ReadAll
  \/ \E p \in Paths : ReadSettles(p)
  \/ AuditEnds
  \/ \E p \in Paths, v \in Contents : ProjectChanges(p, v)

SpecCache == InitCacheAudits /\ [][NextCache]_vars

InitRepeat ==
  /\ InitAudit
  /\ sFindings \in RepeatLists
  /\ sOut = NoResult
  /\ oCats \in RepeatCategories
  /\ oOut = <<>>
  /\ oBase = <<>>
  /\ pCalls = NoCalls
  /\ InitProcess
  /\ InitCaches
  /\ InitTools
  /\ disk = [p \in Paths |-> ""]

NextRepeat == \E fn \in ScoringFunctions : CallScoring(fn)

SpecRepeat == InitRepeat /\ [][NextRepeat]_vars


\* pwaudit [target] [-o <dir>] [--json-only] [--debug] has parsed its arguments
InitCli ==
  /\ InitAudit
  /\ InitScoring
  /\ InitProcess
  /\ InitCaches
  /\ disk = [p \in Paths |-> ""]
  /\ cliOpts \in CliOptionSets
  /\ cliPc = "runAudit"
  /\ NoImport
  /\ NoPick
  /\ NoWalk
  /\ NoTabs

NextCli ==
  \/ \E t \in Targets : CliRunAudit(t)
  \/ \E crash \in BOOLEAN : AnalyzerCompletes(crash)
  \/ \E ok \in BOOLEAN : Finalize(ok)
  \/ \E ok \in BOOLEAN : WriteHtml(ok)
  \/ CliFails
  \/ \E ok \in BOOLEAN : CliWriteJson(ok)
  \/ \E ok \in BOOLEAN : CliWriteHtml(ok)

SpecCli == InitCli /\ [][NextCli]_vars

\* the registry entry whose resolution is followed: the last one, notify
ImportEntries == {Len(ANALYZERS)}

\* runAnalyzer(entry, targetDir) calls importAnalyzerModule(entry.stem): at most
\* MaxPresent of the candidate paths hold something
InitImport ==
  /\ InitAudit
  /\ InitScoring
  /\ InitProcess
  /\ InitCaches
  /\ disk = [p \in Paths |-> ""]
  /\ NoCli
  /\ forEntry \in ImportEntries
  /\ stem = ANALYZERS[forEntry].stem
  /\ \E S \in {T \in SUBSET (1..NumCandidates) : Cardinality(T) <= MaxPresent} :
       \E g \in [S -> DiskKinds \ {"missing"}] :
         onDisk = [k \in 1..NumCandidates |-> IF k \in S THEN g[k] ELSE "missing"]
  /\ bare \in [1..Len(BareExts) -> BareKinds]
  /\ step = 1
  /\ tried = <<>>
  /\ errors = <<>>
  /\ probes = <<>>
  /\ mod = <<>>
  /\ loadIssue = <<>>
  /\ exported = <<>>
  /\ picked = <<>>
  /\ NoWalk
  /\ NoTabs

NextImport ==
  \/ TryCandidate
  \/ TryBare
  \/ ReturnsNoModule

SpecImport == InitImport /\ [][NextImport]_vars

\* importAnalyzerModule has returned the module of some registry entry
InitPick ==
  /\ InitAudit
  /\ InitScoring
  /\ InitProcess
  /\ InitCaches
  /\ disk = [p \in Paths |-> ""]
  /\ NoCli
  /\ NoImport
  /\ forEntry \in 1..Len(ANALYZERS)
  /\ exported \in ExportLists(ANALYZERS[forEntry])
  /\ picked = <<>>
  /\ NoWalk
  /\ NoTabs

NextPick == PickFunction

SpecPick == InitPick /\ [][NextPick]_vars

NextDeduct == ApplyDeductionScore

SpecDeduct == InitScore /\ [][NextDeduct]_vars

\* walk(root, limit) or walkFiles(root, { limit }) has been called on some tree
InitWalk ==
  /\ InitAudit
  /\ InitScoring
  /\ InitProcess
  /\ InitCaches
  /\ disk = [p \in Paths |-> ""]
  /\ NoCli
  /\ NoImport
  /\ NoPick
  /\ walker \in {"walk", "walkFiles"}
  /\ walkPc = "called"
  /\ tree \in Trees
  /\ limit \in 1..MaxLimit
  /\ stack = <<>>
  /\ collected = <<>>
  /\ NoTabs

NextWalk ==
  \/ WalkStarts
  \/ VisitEntry
  \/ ChildReturned
  \/ LoopEnds

\* every `await` of the traversal is resumed by the event loop
SpecWalk == InitWalk /\ [][NextWalk]_vars /\ WF_vars(NextWalk)

\* the page has loaded the report; wireTabs has not run yet
InitTabs ==
  /\ InitAudit
  /\ InitScoring
  /\ InitProcess
  /\ InitCaches
  /\ disk = [p \in Paths |-> ""]
  /\ NoCli
  /\ NoImport
  /\ NoPick
  /\ NoWalk
  /\ tabIds \in TabLists
  /\ selected = <<>>
  /\ hidden = <<>>
  /\ focused = 0
  /\ lastEvent = <<>>

NextTabs ==
  \/ WireTabs
  \/ \E k \in 1..MaxTabs : ClickTab(k)
  \/ \E key \in Keys : KeyDown(key)

SpecTabs == InitTabs /\ [][NextTabs]_vars
-----------------------------------------------------------------------------
(* Properties of a run *)

\* the result object has been built (the loop is over)
Assembled == result # NoResult

HasCat(k) == \E j \in 1..Len(catEntry) : catEntry[j] = k

CatIndex(k) == CHOOSE j \in 1..Len(catEntry) : catEntry[j] = k

HasIssue(k) == \E j \in 1..Len(issueEntry) : issueEntry[j] = k

Failed(k) == outcome[k] \in {"threw", "rejected", "rejected-partial"}

IsAnalyzerError(fs) == Len(fs) = 1 /\ fs[1].id = "analyzer-error"

\* every module loaded and every analyzer function either failed or fulfilled
\* with a category object; one threw synchronously and another rejected
IsolationScenario ==
  /\ Assembled
  /\ \A k \in Entries : Failed(k) \/ outcome[k] = "fulfilled"
  /\ \E a \in Entries : outcome[a] = "threw"
  /\ \E b \in Entries : outcome[b] \in {"rejected", "rejected-partial"}

\* C1: in a run whose analyzers all load, one throwing synchronously and another
\* rejecting, the result has exactly one category per registry entry; each failing
\* entry's category holds exactly one finding, 'analyzer-error', and every other
\* entry's category holds the findings its own runAnalyzer call returned.
RunnerIsolation ==
  IsolationScenario =>
    /\ Len(result.categories) = NumAnalyzers
    /\ \A k \in Entries :
         /\ HasCat(k)
         /\ LET c == result.categories[CatIndex(k)]
            IN IF Failed(k)
               THEN IsAnalyzerError(c.findings)
               ELSE c.findings = returned[k][1].findings

RunnerIsolationWitness ==
  /\ IsolationScenario
  /\ pc = "done"
  /\ \E k \in Entries : outcome[k] = "fulfilled" /\ Len(returned[k][1].findings) > 0

EmissionErrors == {"mkdir failed", "writeHtml failed", "writeFile failed"}

\* C2 as stated: with a target that is a directory the call never rejects.
OnlyValidationRejects == target = "dir" => pc # "rejected"

\* C2, amended: a call rejects either in the target validation, or, with a valid
\* target, only after every registry entry was settled and the result was built,
\* because creating the output directory or writing a report failed; no
\* per-analyzer failure rejects it.
NoAnalyzerFailurePropagates ==
  pc = "rejected" =>
    \/ target # "dir" /\ error = "Target directory not found"
    \/ /\ target = "dir"
       /\ error \in EmissionErrors
       /\ Assembled
       /\ \A k \in Entries : outcome[k] # "pending"

NoAnalyzerFailurePropagatesWitness ==
  /\ pc = "done"
  /\ \E k \in Entries : outcome[k] = "load-miss"
  /\ \E k \in Entries : outcome[k] = "threw"
  /\ \E k \in Entries : outcome[k] = "rejected-partial"

\* C3: when the target is missing or no directory the call is rejected and, in
\* that call, no module resolution has started, no analyzer was invoked, no
\* category or load issue was produced, no directory was created and no file written.
InvalidTargetRejectsFirst ==
  target # "dir" =>
    /\ pc = "rejected"
    /\ started = <<>> /\ inflight = {}
    /\ cats = <<>> /\ loadIssues = <<>> /\ result = NoResult
    /\ dirs = {} /\ files = {}

InvalidTargetRejectsFirstWitness ==
  pc = "rejected" /\ target = "file" /\ error = "Target directory not found"

Settled(k) == outcome[k] # "pending"

IssueIndex(k) == CHOOSE j \in 1..Len(issueEntry) : issueEntry[j] = k

\* C4: every settled registry entry has contributed exactly one outcome, a category
\* or a load issue, never both and never neither, whatever its analyzer returned;
\* so the categories of a result are not empty.
EveryEntryContributes ==
  /\ \A k \in Entries : Settled(k) => (HasCat(k) # HasIssue(k))
  /\ Assembled => Len(result.categories) > 0

\* C5: when the analyzer function of entry k threw or rejected, runAnalyzer returned
\* a category with the entry's id and title and exactly one finding: analyzer-error,
\* high, fail, the exception text as message; that category is the one collected
\* for k, none of the findings pushed before the failure are in it, and no load
\* issue was recorded for k.
FailureBecomesOneFinding ==
  \A k \in Entries :
    Failed(k) =>
      /\ returned[k] =
           << [id |-> Registry[k].id,
               title |-> Registry[k].title,
               findings |-> << [id |-> "analyzer-error",
                                title |-> "Analyzer failed",
                                message |-> IF thrown[k].message \in {Undef, ""}
                                            THEN thrown[k].str
                                            ELSE thrown[k].message,
                                severity |-> "high",
                                status |-> "fail"] >>] >>
      /\ HasCat(k)
      /\ cats[CatIndex(k)].id = Registry[k].id
      /\ cats[CatIndex(k)].findings = returned[k][1].findings
      /\ ~HasIssue(k)

\* an analyzer rejected after it had pushed findings, another threw a bare string
FailureBecomesOneFindingWitness ==
  /\ pc = "done"
  /\ \E k \in Entries : outcome[k] = "rejected-partial"
  /\ \E k \in Entries : outcome[k] = "threw" /\ thrown[k].message = Undef

\* C6: an entry whose module could not be loaded has exactly one load issue, with
\* id 'load-<entryId>', severity high and status fail, and no category.
LoadMissIsOneIssue ==
  \A k \in Entries :
    outcome[k] = "load-miss" =>
      /\ ~HasCat(k)
      /\ Cardinality({j \in 1..Len(issueEntry) : issueEntry[j] = k}) = 1
      /\ Len(loadIssues) = Len(issueEntry)
      /\ loadIssues[IssueIndex(k)].id = "load-" \o Registry[k].id
      /\ loadIssues[IssueIndex(k)].severity = "high"
      /\ loadIssues[IssueIndex(k)].status = "fail"
      /\ Assembled =>
           Cardinality({j \in 1..Len(result.categories[1].findings) :
                          result.categories[1].findings[j].id = "load-" \o Registry[k].id}) = 1

LoadMissIsOneIssueWitness ==
  /\ pc = "done"
  /\ \E k \in Entries : outcome[k] = "load-miss"
  /\ \E k \in Entries : outcome[k] = "fulfilled"

StrictlyIncreasing(seq) == \A a, b \in 1..Len(seq) : a < b => seq[a] < seq[b]

\* C7: in an assembled result the category 'analyzer-load' is present exactly when
\* a load issue was collected; it is then the first category, its findings are the
\* collected load issues in registry order, and its score and maxPoints are those
\* computeCategoryScore gives for these findings.
LoadCategoryIffIssues ==
  Assembled =>
    /\ (\E j \in 1..Len(result.categories) : result.categories[j].id = "analyzer-load")
         <=> Len(loadIssues) > 0
    /\ Len(loadIssues) > 0 =>
         /\ result.categories[1].id = "analyzer-load"
         /\ result.categories[1].title = "Analyzer Load Issues"
         /\ \A j \in 2..Len(result.categories) : result.categories[j].id # "analyzer-load"
         /\ result.categories[1].findings = loadIssues
         /\ StrictlyIncreasing(issueEntry)
         /\ result.categories[1].maxPoints = 8 * Len(loadIssues)
         /\ result.categories[1].score = 0

LoadCategoryIffIssuesWitness ==
  /\ pc = "done"
  /\ Len(loadIssues) = 2
  /\ Len(result.categories) = 2

\* C8: analyzers run one at a time in registry order: module resolutions start in
\* registry order, one starts only when every earlier entry has settled, at most
\* one analyzer is in flight (the one the loop is at), and the categories that are
\* not synthetic are in registry order.
SequentialInRegistryOrder ==
  /\ Cardinality(inflight) <= 1
  /\ \A k \in inflight : k = i /\ ~Settled(k) /\ pc = "running"
  /\ \A a \in 1..Len(started) : started[a] = a
  /\ \A a \in 1..Len(started) : a < Len(started) => Settled(started[a])
  /\ \A k \in Entries : Settled(k) => \E a \in 1..Len(started) : started[a] = k
  /\ \A a, b \in 1..Len(catEntry) :
       (a < b /\ catEntry[a] # 0) => catEntry[a] < catEntry[b]

SequentialInRegistryOrderWitness ==
  /\ pc = "running"
  /\ inflight = {NumAnalyzers}
  /\ Len(started) = NumAnalyzers
  /\ Len(cats) >= 2

Statuses == {"pass", "fail"}

FindingsWellFormed(fs) ==
  \A j \in 1..Len(fs) : fs[j].status \in Statuses /\ fs[j].severity \in Sev

\* every finding the run holds has a status pass/fail and one of the five severities
AllFindingsWellFormed ==
  /\ \A j \in 1..Len(cats) : FindingsWellFormed(cats[j].findings)
  /\ FindingsWellFormed(loadIssues)
  /\ Assembled =>
       \A j \in 1..Len(result.categories) : FindingsWellFormed(result.categories[j].findings)

\* the status and the severity a finding is to have after normalization: pass and
\* fail are kept and anything else is fail; one of the five severities, in
\* whatever case, is kept in lower case and anything else is low
CoercedStatus(x) == IF x \in Statuses THEN x ELSE "fail"

CoercedSeverity(x) ==
  CASE x \in Sev -> x
    [] x = "High" -> "high"
    [] x = "CRITICAL" -> "critical"
    [] OTHER -> "low"

\* a step in which the analyzer in flight fulfils with its findings (none of them
\* null) and its category is collected: the collected findings are the pushed
\* ones, one for one, with status and severity coerced
CoercesOnFulfil ==
  (/\ pc = "running"
   /\ outcome'[i] = "fulfilled"
   /\ Len(cats') = Len(cats) + 1
   /\ \A j \in 1..Len(work) : work[j] # NullFinding
   /\ Len(cats'[Len(cats')].findings) = Len(work))
  => \A j \in 1..Len(work) :
       /\ cats'[Len(cats')].findings[j].status = CoercedStatus(work[j].status)
       /\ cats'[Len(cats')].findings[j].severity = CoercedSeverity(work[j].severity)

\* C9: every finding of every category of a run (normalized, analyzer-error and
\* load-issue findings) has status pass or fail and one of the five severities; a
\* supplied status other than pass/fail, or none, becomes fail, and a severity that
\* is none of the five (in any case), or missing, becomes low.
FindingsAreNormalized == []AllFindingsWellFormed /\ [][CoercesOnFulfil]_vars

\* a result with a load issue, an analyzer-error and a coerced finding
FindingsAreNormalizedWitness ==
  /\ pc = "done"
  /\ Len(loadIssues) > 0
  /\ \E k \in Entries : Failed(k)
  /\ \E j \in 1..Len(result.categories) :
       \E m \in 1..Len(result.categories[j].findings) :
         /\ result.categories[j].findings[m].title = "Trace on retry"
         /\ result.categories[j].findings[m].severity = "high"
         /\ result.categories[j].findings[m].status = "fail"

-----------------------------------------------------------------------------
(* Properties of the scoring functions *)

\* C10: for every list of findings the category score is an integer from 0 to 100,
\* and for the empty list it is 100 with maxPoints 0.
CategoryScoreInRange ==
  sOut # NoResult =>
    /\ sOut.score \in 0..100
    /\ Len(sFindings) = 0 => (sOut.score = 100 /\ sOut.maxPoints = 0)

\* a list of passed and failed findings, one of them of unknown severity
CategoryScoreInRangeWitness ==
  /\ sOut # NoResult
  /\ sOut.score \in 1..99
  /\ \E j \in 1..Len(sFindings) : sFindings[j].severity = "urgent"

\* the weight the specification gives each severity level
LevelWeight(sev) ==
  CASE sev = "info" -> 1
    [] sev = "low" -> 2
    [] sev = "medium" -> 4
    [] sev = "high" -> 8
    [] sev = "critical" -> 12

RECURSIVE Total(_)
Total(ns) == IF ns = <<>> THEN 0 ELSE Head(ns) + Total(Tail(ns))

ExpectedMax(fs) == Total([k \in 1..Len(fs) |-> LevelWeight(fs[k].severity)])

ExpectedEarned(fs) ==
  Total([k \in 1..Len(fs) |->
           IF fs[k].status = "pass" THEN LevelWeight(fs[k].severity) ELSE 0])

\* s is an integer nearest to 100 * e / m
NearestPercent(s, e, m) == 200 * e - m <= 2 * m * s /\ 2 * m * s <= 200 * e + m

CriticalFailInfoPass ==
  << [severity |-> "critical", status |-> "fail"], [severity |-> "info", status |-> "pass"] >>

\* C11: for a non-empty list of findings of the five severity levels, maxPoints is
\* the sum of the weights (info 1, low 2, medium 4, high 8, critical 12) of all
\* findings, earnedPoints the sum over the findings with status 'pass', and score the
\* rounded percentage earnedPoints / maxPoints; [critical/fail, info/pass] gives
\* maxPoints 13, earnedPoints 1 and score 8.
CategoryScoreIsWeightedPassRatio ==
  (/\ sOut # NoResult
   /\ Len(sFindings) > 0
   /\ \A k \in 1..Len(sFindings) : sFindings[k].severity \in Sev)
  => /\ sOut.maxText = <<>> /\ sOut.earnedText = <<>>
     /\ sOut.maxPoints = ExpectedMax(sFindings)
     /\ sOut.earnedPoints = ExpectedEarned(sFindings)
     /\ NearestPercent(sOut.score, sOut.earnedPoints, sOut.maxPoints)
     /\ sFindings = CriticalFailInfoPass
          => (sOut.maxPoints = 13 /\ sOut.earnedPoints = 1 /\ sOut.score = 8)

\* the scenario of the specification has been scored
CategoryScoreIsWeightedPassRatioWitness ==
  /\ sOut # NoResult
  /\ sFindings = CriticalFailInfoPass
  /\ sOut.score = 8

\* the list with each unrecognized or missing severity replaced by 'low' and each
\* status other than 'pass' replaced by 'fail'
Canonical(fs) ==
  [k \in 1..Len(fs) |->
     [severity |-> IF fs[k].severity \in Sev THEN fs[k].severity ELSE "low",
      status |-> IF fs[k].status = "pass" THEN "pass" ELSE "fail"]]

\* C12: for every list of findings, computeCategoryScore returns what it returns on
\* the list in which unrecognized or missing severities are replaced by 'low' and
\* statuses other than 'pass' by 'fail'.
ScoredAsCanonical ==
  sOut # NoResult => sOut = computeCategoryScore(Canonical(sFindings))

\* r is n / d rounded to the nearest integer, halves upwards
RoundsTo(r, n, d) == 2 * n - d < 2 * d * r /\ 2 * d * r <= 2 * n + d

PointsOf(cs) == Total([k \in 1..Len(cs) |-> cs[k].maxPoints])

WeightedScoresOf(cs) == Total([k \in 1..Len(cs) |-> cs[k].score * cs[k].maxPoints])

ScoresOf(cs) == Total([k \in 1..Len(cs) |-> cs[k].score])

FullAndEmptyWeighted ==
  << [score |-> 100, maxPoints |-> 10], [score |-> 0, maxPoints |-> 30] >>

\* C13: computeOverallScore is the rounded mean of the category scores weighted by
\* maxPoints when some maxPoints is positive ({100,10} and {0,30} give 25), the
\* rounded plain mean of the scores when every maxPoints is 0, 100 for no categories,
\* and lies between 0 and 100 for category scores between 0 and 100.
OverallScoreIsWeightedMean ==
  oOut # <<>> =>
    /\ Len(oCats) = 0 => oOut[1] = 100
    /\ PointsOf(oCats) > 0 => RoundsTo(oOut[1], WeightedScoresOf(oCats), PointsOf(oCats))
    /\ (Len(oCats) > 0 /\ PointsOf(oCats) = 0) => RoundsTo(oOut[1], ScoresOf(oCats), Len(oCats))
    /\ oOut[1] \in 0..100
    /\ oCats = FullAndEmptyWeighted => oOut[1] = 25

\* the scenario of the specification has been scored
OverallScoreIsWeightedMeanWitness ==
  /\ oCats = FullAndEmptyWeighted
  /\ oOut = <<25>>

\* C14, as stated: adding a category with maxPoints = 0, whatever its score, to any
\* list of categories leaves computeOverallScore unchanged.
ZeroPointsCategoryNeverChangesOverall ==
  (oBase # <<>> /\ oOut # <<>>) => oOut[1] = oBase[1].overall

\* C14, amended: adding a category with maxPoints = 0 leaves computeOverallScore
\* unchanged when some category of the list has maxPoints > 0, whatever the added
\* score; when none has, the result is the mean of the scores, and it is unchanged
\* when all scores, the added one included, are 100.
ZeroPointsCategoryKeepsWeightedOverall ==
  (oBase # <<>> /\ oOut # <<>>) =>
    /\ PointsOf(oBase[1].categories) > 0 => oOut[1] = oBase[1].overall
    /\ (\A k \in 1..Len(oCats) : oCats[k].score = 100) => oOut[1] = oBase[1].overall

\* a failed category without points was added to a weighted list of mixed scores
ZeroPointsCategoryKeepsWeightedOverallWitness ==
  /\ oBase # <<>> /\ oOut # <<>>
  /\ PointsOf(oBase[1].categories) > 0
  /\ oCats[Len(oCats)].score = 0
  /\ oOut[1] \in 1..99

\* every logged call of a function returned what its first call returned
SameOutputs ==
  \A fn \in ScoringFunctions :
    \A k \in 1..Len(pCalls[fn]) : pCalls[fn][k] = pCalls[fn][1]

\* a call leaves the arrays it was given as they were
CallKeepsArguments == sFindings' = sFindings /\ oCats' = oCats

-----------------------------------------------------------------------------
(* Scores of a result *)

\* score and maxPoints of c are the weighted pass ratio of c's own findings
HasPassRatioScore(c) ==
  /\ c.maxPoints = ExpectedMax(c.findings)
  /\ c.maxPoints = 0 => c.score = 100
  /\ c.maxPoints > 0 => NearestPercent(c.score, ExpectedEarned(c.findings), c.maxPoints)

\* overall is the overall score of the categories cs
IsOverallOf(overall, cs) ==
  /\ Len(cs) = 0 => overall = 100
  /\ PointsOf(cs) > 0 => RoundsTo(overall, WeightedScoresOf(cs), PointsOf(cs))
  /\ (Len(cs) > 0 /\ PointsOf(cs) = 0) => RoundsTo(overall, ScoresOf(cs), Len(cs))

-----------------------------------------------------------------------------
(* Successive audits *)

\* the findings of the category entry k has in the logged call r
LoggedFindings(r, k) ==
  LET j == CHOOSE j \in 1..Len(runLog[r].catEntry) : runLog[r].catEntry[j] = k
  IN runLog[r].result.categories[j].findings

\* C17: in every runAudit call of a process, the findings of each category the call
\* returns are exactly the findings the analyzer evaluated during that call; nothing
\* an earlier call produced, before a crash or not, appears in a later result.
CategoriesAreFreshPerRun ==
  \A r \in 1..Len(runLog) :
    \A k \in Entries :
      runLog[r].outcome[k] = "fulfilled" =>
        LoggedFindings(r, k) =
          [m \in 1..Len(runLog[r].evaluated[k]) |-> NormalizeFinding(runLog[r].evaluated[k][m])]

\* C18: two runAudit calls of one process on the same unchanged directory, in which
\* the analyzers end the same way, return the same categories (ids, order,
\* findings, scores, maxPoints) and the same overallScore.
AuditIsDeterministicAcrossRuns ==
  \A r1, r2 \in 1..Len(runLog) :
    runLog[r1].outcome = runLog[r2].outcome => runLog[r1].result = runLog[r2].result

-----------------------------------------------------------------------------
(* The caches *)

\* what a call returns when it goes to the file system now
FromDisk(o) ==
  IF o.op = "exists" THEN (IF disk[o.path] # "" THEN "true" ELSE "false") ELSE disk[o.path]

\* C19: the caches are valid for one audit invocation: what exists() and readFile()
\* return during an audit is the state of the project during that audit, so a file
\* created, changed or removed between two audits is seen by the second.
CachesLastOneAudit ==
  pc = "running" => \A o \in observed : o.value = FromDisk(o)

\* C20: during an audit at most one exists() or readFile() call is between its
\* cache lookup and its cache write at any time.
CacheAccessesNeverOverlap == Cardinality(pending) <= 1

-----------------------------------------------------------------------------
(* The command line *)

\* the run of the command has ended normally
CliExited == cliPc = "exit"

\* C21: a run with --json-only that ends normally has written report.json under
\* the -o/--out directory and has written no index.html anywhere
JsonOnlyEmitsOnlyJson ==
  (cliOpts.jsonOnly /\ CliExited)
    => /\ <<CliOutDir(cliOpts), "report.json">> \in files
       /\ \A f \in files : f[2] # "index.html"

-----------------------------------------------------------------------------
(* Finding ids *)

\* the ids of a list of findings are pairwise distinct
DistinctIds(fs) == \A a, b \in 1..Len(fs) : a # b => fs[a].id # fs[b].id

\* C22: within every category of every result the process has returned, the ids
\* of the findings are pairwise distinct
FindingIdsAreDistinct ==
  \A r \in 1..Len(runLog) :
    \A c \in 1..Len(runLog[r].result.categories) :
      DistinctIds(runLog[r].result.categories[c].findings)

-----------------------------------------------------------------------------
(* Module resolution *)

\* the candidate paths in priority order: compiled output, source, same folder,
\* each over .js, .mjs, .cjs, .ts
PriorityOrder ==
  [k \in 1..12 |->
     <<"pkg/dist/analyzers", "pkg/src/analyzers", "pkg/dist/src/analyzers">>[((k - 1) \div 4) + 1]
       \o "/" \o stem \o <<".js", ".mjs", ".cjs", ".ts">>[((k - 1) % 4) + 1]]

\* the bare specifiers, in order
BareOrder == <<"./analyzers/" \o stem \o ".js", "./analyzers/" \o stem \o ".mjs">>

\* everything that can be tried, in order
FullOrder == PriorityOrder \o BareOrder

\* candidate k holds a regular file
IsFile(k) == onDisk[k] \in {"broken", "module"}

\* the positions in FullOrder whose import succeeds
Loadable ==
  {k \in 1..12 : onDisk[k] = "module"} \cup {12 + k : k \in {j \in 1..2 : bare[j] = "loads"}}

\* the positions in FullOrder whose import fails when attempted
Failing ==
  {k \in 1..12 : onDisk[k] = "broken"} \cup {12 + k : k \in {j \in 1..2 : bare[j] = "fails"}}

\* the imports attempted so far, and those of them that failed
ImportsMade == SelectSeq(probes, LAMBDA p : p.op = "import")

StatsMade == SelectSeq(probes, LAMBDA p : p.op = "stat")

\* the call has returned
ImportReturned == step = 16

\* what has been tried is an initial part of the priority order
TriedInOrder ==
  /\ Len(tried) <= Len(FullOrder)
  /\ \A k \in 1..Len(tried) : tried[k] = FullOrder[k]

\* every import of a candidate path directly follows the probe of that path, and
\* the probe found a regular file
ImportOnlyAfterFileProbe ==
  LET order == PriorityOrder
  IN \A n \in 1..Len(probes) :
       (probes[n].op = "import" /\ \E k \in 1..12 : order[k] = probes[n].spec)
         => /\ n > 1
            /\ probes[n - 1] = [op |-> "stat", spec |-> probes[n].spec]
            /\ \E k \in 1..12 : order[k] = probes[n].spec /\ IsFile(k)

\* every failed import so far left one error entry, in order, and the search went on
FailuresRecorded ==
  LET order == FullOrder
      failing == Failing
  IN /\ Len(errors) = Cardinality({k \in failing : k <= Len(tried) /\ (k <= 12 => IsFile(k))})
     /\ \A n \in 1..Len(errors) :
          \E k \in failing : /\ k <= Len(tried)
                              /\ Cardinality({j \in failing : j < k}) = n - 1
                              /\ errors[n] = order[k] \o ": Cannot load module"

\* the module returned is the earliest loadable one, and nothing after it was tried
EarliestLoadableReturned ==
  /\ mod # <<>> => /\ Loadable # {}
                   /\ LET first == CHOOSE k \in Loadable : \A j \in Loadable : k <= j
                      IN /\ mod = <<FullOrder[first]>>
                         /\ Len(tried) = first
                         /\ probes[Len(probes)] = [op |-> "import", spec |-> FullOrder[first]]
                         /\ ImportReturned
  /\ (ImportReturned /\ Loadable # {}) => mod # <<>>

\* C23: candidates are tried in the fixed priority order; an import is attempted
\* only on a candidate whose probe found a regular file; a failed import is
\* recorded and the search goes on; the module returned is the earliest candidate
\* that exists and imports, and nothing is probed after it
ResolutionFollowsPriorityOrder ==
  /\ TriedInOrder
  /\ ImportOnlyAfterFileProbe
  /\ FailuresRecorded
  /\ EarliestLoadableReturned

\* a candidate of a later folder was returned after an earlier candidate file
\* had failed to import
ResolutionFollowsPriorityOrderWitness ==
  /\ mod # <<>>
  /\ \E k \in 5..12 : mod = <<PriorityOrder[k]>>
  /\ Len(errors) = 1
  /\ Len(StatsMade) > Len(ImportsMade)

\* C24: a bare specifier is imported only after all candidate paths were probed
\* and none loaded; when nothing loads the message of the load issue lists all
\* that was tried, in order, and one error entry per failed import
BareImportsComeLast ==
  LET order == FullOrder
      stats == {StatsMade[m].spec : m \in 1..Len(StatsMade)}
  IN /\ (\E n \in 1..Len(probes) : probes[n].spec \in {order[13], order[14]})
          => /\ \A k \in 1..12 : onDisk[k] # "module"
             /\ \A k \in 1..12 : order[k] \in stats
             /\ \A n \in 1..12 : probes[n].op = "stat" \/ probes[n].spec \notin {order[13], order[14]}
     /\ loadIssue # <<>>
          => /\ mod = <<>>
             /\ Len(ImportsMade) = Cardinality(Failing)
             /\ Len(loadIssue) = 1
             /\ LET msg == loadIssue[1].message
                    failed == ImportsMade
                IN /\ Len(msg) = 1 + 14 + (IF Len(failed) > 0 THEN 1 + Len(failed) ELSE 0)
                   /\ \A k \in 1..14 : msg[1 + k] = "* " \o order[k]
                   /\ Len(failed) > 0 => msg[16] = "Errors:"
                   /\ \A n \in 1..Len(failed) :
                        msg[16 + n] = "- " \o failed[n].spec \o ": Cannot load module"

\* nothing loaded, with a broken candidate file and two failing bare imports behind
BareImportsComeLastWitness ==
  /\ loadIssue # <<>>
  /\ Len(errors) = 3
  /\ Len(tried) = 14

-----------------------------------------------------------------------------
(* The function invoked *)

\* the module exports the name of the registry entry as a function
ExportsNamedFunction ==
  \E k \in 1..Len(exported) :
    exported[k].name = ANALYZERS[forEntry].fnName /\ exported[k].kind = "function"

\* positions of the exported functions
FunctionPositions == {k \in 1..Len(exported) : exported[k].kind = "function"}

\* C25: the export the entry names is invoked if it is a function, otherwise the
\* first exported function; with no exported function nothing is invoked and one
\* load issue no-fn-<entry id>, high, fail, is returned
NamedExportElseFirstFunction ==
  picked # <<>> =>
    /\ ExportsNamedFunction => picked[1].invoked = <<ANALYZERS[forEntry].fnName>>
    /\ (~ExportsNamedFunction /\ FunctionPositions # {}) =>
         picked[1].invoked =
           <<exported[CHOOSE k \in FunctionPositions : \A j \in FunctionPositions : k <= j].name>>
    /\ FunctionPositions # {} => picked[1].loadIssue = <<>>
    /\ FunctionPositions = {} =>
         /\ picked[1].invoked = <<>>
         /\ Len(picked[1].loadIssue) = 1
         /\ picked[1].loadIssue[1].id = "no-fn-" \o ANALYZERS[forEntry].id
         /\ picked[1].loadIssue[1].severity = "high"
         /\ picked[1].loadIssue[1].status = "fail"

\* the notify entry names analyzeNotification, its module exports
\* analyzeNotifications only: that function is invoked
NamedExportElseFirstFunctionWitness ==
  /\ ANALYZERS[forEntry].id = "notify"
  /\ exported = << [name |-> "analyzeNotifications", kind |-> "function"] >>
  /\ picked # <<>>
  /\ picked[1].invoked = <<"analyzeNotifications">>

-----------------------------------------------------------------------------
(* Lenient normalization *)

\* the id a finding gets when every malformed or missing field is coerced to
\* its default: String(f.id ?? f.title ?? 'check')
CoercedId(f) ==
  IF f = NullFinding THEN "check"
  ELSE IF f.id # Undef THEN f.id
  ELSE IF f.title # Undef THEN f.title
  ELSE "check"

\* the analyzer of the current entry fulfils with an object in this step
FulfilsWithObject == pc = "running" /\ outcome'[i] = "fulfilled"

\* C26: when an analyzer fulfils with an object, the runner returns one category
\* that keeps the findings the analyzer pushed one-for-one and in order (or no
\* findings when the findings value is no array): no finding, however
\* malformed, makes normalization raise or the other findings disappear
NormalizationIsLenient ==
  [][FulfilsWithObject =>
       /\ Len(returned'[i]) = 1
       /\ \/ returned'[i][1].findings = <<>>
          \/ /\ Len(returned'[i][1].findings) = Len(work)
             /\ \A k \in 1..Len(work) : returned'[i][1].findings[k].id = CoercedId(work[k])]_vars

-----------------------------------------------------------------------------
(* The deduction score *)

\* what a finding deducts: its table entry if it failed and its severity is one
\* of the five levels, nothing otherwise
Deduction(f) ==
  IF f.status # "fail" THEN 0
  ELSE CASE f.severity = "low" -> 2
         [] f.severity = "medium" -> 6
         [] f.severity = "high" -> 12
         [] f.severity = "critical" -> 20
         [] OTHER -> 0

RECURSIVE TotalDeduction(_)
TotalDeduction(fs) == IF fs = <<>> THEN 0 ELSE Deduction(Head(fs)) + TotalDeduction(Tail(fs))

\* C27: applyScore(findings) is max(0, 100 - the sum of the deductions of the
\* failed findings); passed findings and failed findings of severity info, of
\* no severity or of an unrecognized severity deduct nothing
DeductionScoreIsFlooredSum ==
  sOut # NoResult =>
    sOut = [value |-> IF TotalDeduction(sFindings) > 100 THEN 0 ELSE 100 - TotalDeduction(sFindings)]

-----------------------------------------------------------------------------
(* Read-through caches *)

\* the entry of path p in a cache stays as it is, no call for p goes to the file
\* system, and every call for p that returns in this step returns the entry
ServedFromCache(cache, cacheNext, op, p) ==
  (\E e \in cache : e.path = p) =>
    /\ \E e \in cache : e.path = p /\ e \in cacheNext
    /\ \A e \in cacheNext : e.path = p => e \in cache
    /\ [op |-> op, path |-> p] \notin pending'
    /\ \A o \in observed' : (o.op = op /\ o.path = p) => [path |-> p, value |-> o.value] \in cache

\* the call op(p) that was waiting for the file system returns in this step
Settles(op, p) == [op |-> op, path |-> p] \in pending /\ [op |-> op, path |-> p] \notin pending'

\* C28: once exists(p) or readFile(p) has completed, every later call for p
\* returns the cached value without going to the file system, whatever has
\* happened to the file; a failed stat is cached as false, a failed read as ''
CachesAreReadThrough ==
  [][\A p \in Paths :
       /\ ServedFromCache(statCache, statCache', "exists", p)
       /\ ServedFromCache(fileCache, fileCache', "readFile", p)
       /\ (Settles("exists", p) /\ disk[p] = "") => [path |-> p, value |-> "false"] \in statCache'
       /\ (Settles("readFile", p) /\ disk[p] = "") => [path |-> p, value |-> ""] \in fileCache']_vars

\* in a second audit readFile returns the text cached by the first, which the
\* file no longer has, and exists has cached false for a path that was not there
CachesAreReadThroughWitness ==
  /\ audits = 2
  /\ pending = {}
  /\ \E o \in observed : /\ o.op = "readFile"
                         /\ [path |-> o.path, value |-> o.value] \in fileCache
                         /\ o.value # disk[o.path]
  /\ \E e \in statCache : e.value = "false"

-----------------------------------------------------------------------------
(* Traversals *)

\* a call of walk is entered for a subdirectory in this step
Descends == stack # <<>> /\ Len(stack') > Len(stack)

\* the traversal has returned its array
WalkReturned == walkPc = "returned"

\* the entries of the tree that are no directories
FilesOf(t) == {<<d, k>> \in UNION {{d} \X (1..Len(t[d])) : d \in DOMAIN t} : ~t[d][k].dir}

\* C29: walk and walkFiles return, the array never holds more than limit paths,
\* and no subdirectory is entered once it holds limit paths
TraversalIsBounded ==
  /\ [](Len(collected) <= limit)
  /\ [][Descends => Len(collected) < limit]_vars
  /\ <>WalkReturned

\* walk has returned exactly limit paths of a tree that holds more files
TraversalIsBoundedWitness ==
  /\ WalkReturned
  /\ walker = "walk"
  /\ Len(collected) = limit
  /\ Cardinality(FilesOf(tree)) > limit
  /\ \E d \in DOMAIN tree : d # "root"

-----------------------------------------------------------------------------
(* Dashboard tabs *)

\* the report has at least one category and its category ids are distinct
DistinctCategories ==
  /\ Len(tabIds) >= 1
  /\ \A a, b \in 1..Len(tabIds) : a # b => tabIds[a] # tabIds[b]

\* wireTabs has run
Wired == lastEvent # <<>>

\* C30: for a report with at least one category and distinct category ids, after
\* wireTabs and any clicks and key presses exactly one tab is selected and
\* exactly its panel is shown; ArrowRight on the last tab selects the first and
\* ArrowLeft on the first selects the last
OneTabSelectedAndShown ==
  (DistinctCategories /\ Wired) =>
    /\ Cardinality({k \in 1..Len(tabIds) : selected[k]}) = 1
    /\ \A k \in 1..Len(tabIds) : hidden[k] <=> ~selected[k]
    /\ (lastEvent[1].ev = "ArrowRight" /\ lastEvent[1].from = Len(tabIds)) => selected[1]
    /\ (lastEvent[1].ev = "ArrowLeft" /\ lastEvent[1].from = 1) => selected[Len(tabIds)]

\* ArrowRight was pressed on the last of three tabs: the first is selected
OneTabSelectedAndShownWitness ==
  /\ DistinctCategories
  /\ Len(tabIds) = 3
  /\ Wired
  /\ lastEvent[1] = [ev |-> "ArrowRight", from |-> 3]
  /\ selected[1]
  /\ ~hidden[1]

====
